---------------------------- MODULE Spec2Model ----------------------------
(***************************************************************************)
(* TangoMan Groceries: the GroceryApp of src/src/js/main.js over the       *)
(* DataStore of src/unnamed/part_000 (imported by main.js as               *)
(* ./dataStore.js), with the web-storage backend (localStorage).           *)
(*                                                                         *)
(* Strings are TLA+ strings; Head, Tail, SubSeq, Len and \o act on them    *)
(* character by character, so trim and toLowerCase are computed.           *)
(* Prices are integers.  A JSON value read from an import file is a        *)
(* tagged record (JSUndefined, JSNull, JSStr, JSNum, JSObj).               *)
(*                                                                         *)
(* The second part models a DataStore used on its own, at the level of the *)
(* text the backend holds: JSON.stringify and JSON.parse are computed      *)
(* character by character, and an object (JSObject) is the sequence of its *)
(* properties in the order JavaScript lists them.                          *)
(***************************************************************************)
EXTENDS Integers, Sequences, FiniteSets, TLC

(***************************************************************************)
(* Bounds of the model.                                                    *)
(***************************************************************************)
\* the clock Date.now() takes the values 0..MaxClock
MaxClock == 1
\* the Catalog holds at most MaxItems Items
MaxItems == 2
\* the Catalog holds at most MaxListed Items where the shopping list and
\* its rendering are explored
MaxListed == 1
\* an import file holds at most MaxBatch records
MaxBatch == 2
\* at most MaxTimers setTimeout callbacks of one kind are pending
MaxTimers == 1
\* the backend holds at most MaxPayload characters under the namespace of
\* the DataStore used on its own
MaxPayload == 29

(***************************************************************************)
(* JavaScript values and the conversions the handlers apply to them.       *)
(***************************************************************************)
JSUndefined == [t |-> "undefined"]
JSNull == [t |-> "null"]
JSNaN == [t |-> "NaN"]
JSStr(s) == [t |-> "string", s |-> s]
JSNum(n) == [t |-> "number", n |-> n]
JSObj(f) == [t |-> "object", fields |-> f]

\* raw?.name : the property of an object, undefined on anything else
Field(raw, name) ==
    IF raw.t = "object" /\ name \in DOMAIN raw.fields
    THEN raw.fields[name]
    ELSE JSUndefined

\* a ?? b
Coalesce(a, b) == IF a.t \in {"undefined", "null"} THEN b ELSE a

\* !v
Falsy(v) ==
    \/ v.t \in {"undefined", "null", "NaN"}
    \/ v.t = "string" /\ v.s = ""
    \/ v.t = "number" /\ v.n = 0
    \/ v.t = "boolean" /\ ~v.b

DigitChars == <<"0", "1", "2", "3", "4", "5", "6", "7", "8", "9">>
IsDigit(c) == \E i \in 1..10 : DigitChars[i] = c
DigitValue(c) == (CHOOSE i \in 1..10 : DigitChars[i] = c) - 1

RECURSIVE NatString(_)
NatString(n) ==
    IF n < 10 THEN DigitChars[n + 1]
    ELSE NatString(n \div 10) \o DigitChars[(n % 10) + 1]

\* String(v)
JSString(v) ==
    CASE v.t = "string" -> v.s
      [] v.t = "number" -> IF v.n < 0 THEN "-" \o NatString(-v.n) ELSE NatString(v.n)
      [] v.t = "NaN" -> "NaN"
      [] v.t = "object" -> "[object Object]"
      [] OTHER -> v.t

\* the longest prefix of s made of decimal digits
RECURSIVE DigitPrefix(_)
DigitPrefix(s) ==
    IF s = "" \/ ~IsDigit(Head(s)) THEN ""
    ELSE Head(s) \o DigitPrefix(Tail(s))

RECURSIVE DigitsValue(_, _)
DigitsValue(s, acc) ==
    IF s = "" THEN acc
    ELSE DigitsValue(Tail(s), 10 * acc + DigitValue(Head(s)))

RECURSIVE TrimStart(_)
TrimStart(s) ==
    IF s # "" /\ Head(s) = " " THEN TrimStart(Tail(s)) ELSE s

RECURSIVE TrimEnd(_)
TrimEnd(s) ==
    IF s # "" /\ SubSeq(s, Len(s), Len(s)) = " "
    THEN TrimEnd(SubSeq(s, 1, Len(s) - 1))
    ELSE s

\* String.prototype.trim
Trim(s) == TrimEnd(TrimStart(s))

UpperChars == <<"A", "B", "C", "I", "M", "X">>
LowerChars == <<"a", "b", "c", "i", "m", "x">>
LowerChar(c) ==
    IF \E i \in 1..Len(UpperChars) : UpperChars[i] = c
    THEN LowerChars[CHOOSE i \in 1..Len(UpperChars) : UpperChars[i] = c]
    ELSE c

\* String.prototype.toLowerCase
RECURSIVE ToLowerCase(_)
ToLowerCase(s) ==
    IF s = "" THEN "" ELSE LowerChar(Head(s)) \o ToLowerCase(Tail(s))

\* the number a string of an optional sign and digits denotes, NaN otherwise
SignedDigits(s) ==
    LET neg == s # "" /\ Head(s) = "-"
        body == IF neg THEN Tail(s) ELSE s
    IN  IF body # "" /\ DigitPrefix(body) = body
        THEN JSNum(IF neg THEN -DigitsValue(body, 0) ELSE DigitsValue(body, 0))
        ELSE JSNaN

\* Number(v)
JSNumber(v) ==
    CASE v.t = "number" -> v
      [] v.t = "null" -> JSNum(0)
      [] v.t = "string" -> IF Trim(v.s) = "" THEN JSNum(0) ELSE SignedDigits(Trim(v.s))
      [] OTHER -> JSNaN

\* parseFloat(text): leading blanks skipped, then an optional sign and the
\* longest run of digits; NaN when there is no digit
ParseFloat(text) ==
    LET s == TrimStart(text)
        neg == s # "" /\ Head(s) = "-"
        body == IF neg THEN Tail(s) ELSE s
        digits == DigitPrefix(body)
    IN  IF digits = "" THEN JSNaN
        ELSE JSNum(IF neg THEN -DigitsValue(digits, 0) ELSE DigitsValue(digits, 0))

\* isFinite(v) of a number value
IsFinite(v) == v.t = "number"


(***************************************************************************)
(* The import merge: the loop of handleImportFile over the parsed array.   *)
(* An Item is [id, store, item, price].  The loop state st holds the       *)
(* locals toAdd, skippedInvalid, skippedDuplicates, counter and the two    *)
(* index sets existingIdSet and existingKeySet.  The records of the array  *)
(* are read one by one as the loop reaches them.                           *)
(***************************************************************************)
Range(seq) == {seq[i] : i \in 1..Len(seq)}

ItemIds(items) == {items[i].id : i \in 1..Len(items)}

\* the key of an Item of the existing Catalog (existingKeySet)
ExistingKey(it) ==
    ToLowerCase(Trim(it.store)) \o "|" \o ToLowerCase(Trim(it.item))

\* the key of an Item already in toAdd
BatchKey(x) == ToLowerCase(x.store) \o "|" \o ToLowerCase(x.item)

\* a variant of the locals that starts from empty index sets
ImportStartUnindexed(items) ==
    [ toAdd |-> <<>>,
      skippedInvalid |-> 0,
      skippedDuplicates |-> 0,
      counter |-> 0,
      existingIdSet |-> {},
      existingKeySet |-> {} ]

\* the locals of handleImportFile before the loop
ImportStart(items) ==
    [ toAdd |-> <<>>,
      skippedInvalid |-> 0,
      skippedDuplicates |-> 0,
      counter |-> 0,
      existingIdSet |-> ItemIds(items),
      existingKeySet |-> {ExistingKey(items[i]) : i \in 1..Len(items)} ]

\* a variant of makeUniqueId that takes the first candidate without looking
\* it up in existingIdSet
makeUniqueIdUnchecked(st, now) ==
    LET id == "item-" \o ToString(now) \o "-" \o ToString(st.counter)
    IN  [ id |-> id,
          st |-> [st EXCEPT !.counter = @ + 1,
                            !.existingIdSet = @ \cup {id}] ]

\* makeUniqueId: the first item-<now>-<counter> that existingIdSet lacks;
\* the result is the id and the loop state with counter and existingIdSet
\* updated
RECURSIVE makeUniqueId(_, _)
makeUniqueId(st, now) ==
    LET id == "item-" \o ToString(now) \o "-" \o ToString(st.counter)
        st1 == [st EXCEPT !.counter = @ + 1]
    IN  IF id \in st.existingIdSet
        THEN makeUniqueId(st1, now)
        ELSE [ id |-> id,
               st |-> [st1 EXCEPT !.existingIdSet = @ \cup {id}] ]

RawStore(raw) ==
    Coalesce(Coalesce(Field(raw, "store"), Field(raw, "Store")), Field(raw, "STORE"))

RawName(raw) ==
    Coalesce(Coalesce(Coalesce(Field(raw, "item"), Field(raw, "name")),
                      Field(raw, "Item")), Field(raw, "ITEM"))

RawPrice(raw) ==
    Coalesce(Coalesce(Field(raw, "price"), Field(raw, "Price")), Field(raw, "PRICE"))

\* the price an accepted record is stored with
ImportPrice(raw) ==
    LET price == JSNumber(RawPrice(raw))
    IN  IF ~IsFinite(price) THEN 0 ELSE price.n

\* let id = raw?.id != null ? String(raw.id) : ''
RawId(raw) ==
    IF Field(raw, "id").t \in {"undefined", "null"}
    THEN ""
    ELSE JSString(Field(raw, "id"))

\* the validity test of the loop: if (!store || !name)
RecordInvalid(raw) == Falsy(RawStore(raw)) \/ Falsy(RawName(raw))

\* const item = String(name).trim()
RecordItem(raw) == Trim(JSString(RawName(raw)))

\* const storeStr = String(store).trim()
RecordStore(raw) == Trim(JSString(RawStore(raw)))

\* the deduplication key of a record: const key
RecordKey(storeStr, item) == ToLowerCase(storeStr) \o "|" \o ToLowerCase(item)

\* a variant of the id assignment that never keeps the supplied id
AssignIdAlwaysFresh(st, raw, now) == makeUniqueId(st, now)

\* the id assignment of an accepted record: the supplied id when it is
\* non-empty and not in existingIdSet, a synthesized one otherwise
AssignId(st, raw, now) ==
    IF RawId(raw) = "" \/ RawId(raw) \in st.existingIdSet
    THEN makeUniqueId(st, now)
    ELSE [ id |-> RawId(raw),
           st |-> [st EXCEPT !.existingIdSet = @ \cup {RawId(raw)}] ]

\* a variant of the loop body that skips an invalid record without counting
\* it
ImportStepUncounted(st, raw, now) ==
    LET item == RecordItem(raw)
        storeStr == RecordStore(raw)
        key == RecordKey(storeStr, item)
        a == AssignId(st, raw, now)
        accepted ==
            [a.st EXCEPT
                !.toAdd = Append(@, [ id |-> a.id, store |-> storeStr,
                                      item |-> item, price |-> ImportPrice(raw) ]),
                !.existingKeySet = @ \cup {key}]
    IN  IF RecordInvalid(raw)
        THEN st
        ELSE IF key \in st.existingKeySet
        THEN [st EXCEPT !.skippedDuplicates = @ + 1]
        ELSE accepted

\* a variant of the loop body that counts a duplicate as invalid
ImportStepMiscount(st, raw, now) ==
    LET item == RecordItem(raw)
        storeStr == RecordStore(raw)
        key == RecordKey(storeStr, item)
        a == AssignId(st, raw, now)
        accepted ==
            [a.st EXCEPT
                !.toAdd = Append(@, [ id |-> a.id, store |-> storeStr,
                                      item |-> item, price |-> ImportPrice(raw) ]),
                !.existingKeySet = @ \cup {key}]
    IN  IF RecordInvalid(raw) \/ key \in st.existingKeySet
        THEN [st EXCEPT !.skippedInvalid = @ + 1]
        ELSE accepted

\* one iteration of the loop: the record raw, read when the clock shows now
ImportStep(st, raw, now) ==
    LET item == RecordItem(raw)
        storeStr == RecordStore(raw)
        key == RecordKey(storeStr, item)
        a == AssignId(st, raw, now)
        accepted ==
            [a.st EXCEPT
                !.toAdd = Append(@, [ id |-> a.id, store |-> storeStr,
                                      item |-> item, price |-> ImportPrice(raw) ]),
                !.existingKeySet = @ \cup {key}]
    IN  IF RecordInvalid(raw)
        THEN [st EXCEPT !.skippedInvalid = @ + 1]
        ELSE IF key \in st.existingKeySet
        THEN [st EXCEPT !.skippedDuplicates = @ + 1]
        ELSE IF \E x \in Range(st.toAdd) : BatchKey(x) = key
        THEN [st EXCEPT !.skippedDuplicates = @ + 1]
        ELSE accepted



(***************************************************************************)
(* The state of the page.                                                  *)
(***************************************************************************)
VARIABLES
    groceryItems,   \* the Catalog: the sequence of Items
    shoppingSet,    \* the Selection Set: ids on the shopping list
    uncheckedSet,   \* the Status Set: ids struck through
    filteredItems,  \* the Items the Manage table is rendered from
    currentTab,     \* "shopping" or "manage"
    isLoading,      \* the loading flag of init
    phase,          \* where the code stands: the load init awaits, "importing"
                    \* inside the loop of handleImportFile, or "ready"
    shoppingRows,   \* the rows of #shopping-tbody: id -> its switch is checked
    manageRows,     \* the ids of the rows of #grocery-tbody
    timers,         \* pending setTimeout callbacks: render kind -> count
    localStorage,   \* namespace -> the persisted value, or NoEntry
    quotaFull,      \* the backend rejects every write (QuotaExceededError)
    clock,          \* the value Date.now() returns
    toast,          \* the last toast shown
    importRun,      \* the locals of the loop of handleImportFile while it runs
    lastOp,         \* history: the last handler run, its id argument and the
                    \* collections that held the id when it started
    payload,        \* the text the backend holds under the namespace of a
                    \* DataStore used on its own, or NoEntry
    call,           \* history: the last call on that DataStore, its
                    \* arguments and its outcome
    listeners,      \* _eventListeners of that DataStore: event kind -> the
                    \* callbacks registered, in order
    asyncCalls      \* the calls made on that DataStore without awaiting
                    \* them, in the order they were made, and the queue of
                    \* the continuations that wait for their turn

vars == << groceryItems, shoppingSet, uncheckedSet, filteredItems, currentTab,
           isLoading, phase, shoppingRows, manageRows, timers, localStorage,
           quotaFull, clock, toast, importRun, lastOp, payload, call, listeners,
           asyncCalls >>

\* the DataStore used on its own: the page never touches it
storeVars == << payload, call, listeners, asyncCalls >>

\* the page, which a call on that DataStore leaves alone; quotaFull is the
\* state of the backend both write to
pageVars == << groceryItems, shoppingSet, uncheckedSet, filteredItems,
               currentTab, isLoading, phase, shoppingRows, manageRows, timers,
               localStorage, clock, toast, importRun, lastOp >>

NoEntry == [t |-> "absent"]

\* call before the first call
NoCall == [op |-> "none"]

\* the kinds of change events
EventKinds == { "set", "clear", "edit", "deleteItem" }

\* a new DataStore has no listener, and no call was made on it
NoListeners == [type \in EventKinds |-> << >>]
NoAsyncCalls ==
    [calls |-> << >>, queue |-> << >>, writes |-> << >>, task |-> FALSE]

\* importRun while no loop of handleImportFile runs
NoImport == [st |-> "none", n |-> 0]

\* importRun after a call of handleImportFile whose promise rejected: the
\* call of Toast.error threw in the try block and again in the catch block
ImportRejected == [st |-> "rejected", n |-> 0]
JSArr(v) == [t |-> "array", v |-> v]

ItemsNs == "groceries.items"
ShoppingNs == "groceries.shopping"
ShoppingStatusNs == "groceries.shoppingStatus"

(***************************************************************************)
(* DataStore over web storage.  The values the page stores are arrays of   *)
(* Items (strings and finite numbers) and arrays of id strings, which      *)
(* JSON.stringify and JSON.parse give back unchanged, so an entry holds    *)
(* the array itself.  JSArr(v) is an array: of Items a sequence, of ids    *)
(* the set of its elements, the page reading it only into a Set.           *)
(***************************************************************************)
\* DataStore.get(defaultValue) on namespace ns
StoreGet(ls, ns, defaultValue) ==
    IF ls[ns] = NoEntry THEN defaultValue ELSE ls[ns]

\* a variant of DataStore.set that drops the write
StoreSetDropped(ls, ns, value, full) == ls

\* DataStore.set(value) on namespace ns: the storage afterwards.  When the
\* backend rejects the write, set throws, the caller's catch logs the error
\* and the storage is as before.
StoreSet(ls, ns, value, full) ==
    IF full THEN ls ELSE [ls EXCEPT ![ns] = value]

(***************************************************************************)
(* Rendering.                                                              *)
(***************************************************************************)
\* renderShoppingList: one row per Item whose id is in shoppingSet, its
\* switch checked unless the id is in uncheckedSet; a message row, and so
\* no item row, while loading or when nothing is selected
RenderShoppingList(items, selected, unchecked, loading) ==
    IF loading THEN << >>
    ELSE [id \in ItemIds(items) \cap selected |-> id \notin unchecked]

\* renderManageTable: one row per Item of filteredItems
RenderManageTable(filtered) == ItemIds(filtered)

Toast(type, message) == [type |-> type, message |-> message]

Op(name, id) ==
    [ op |-> name, id |-> id,
      held |-> { c \in {"catalog", "shopping", "unchecked"} :
                   \/ c = "catalog" /\ id \in ItemIds(groceryItems)
                   \/ c = "shopping" /\ id \in shoppingSet
                   \/ c = "unchecked" /\ id \in uncheckedSet } ]

(***************************************************************************)
(* Construction and init.                                                  *)
(***************************************************************************)
\* the constructor, and init up to its first await, on a first visit
Init ==
    /\ groceryItems = << >>
    /\ shoppingSet = {}
    /\ uncheckedSet = {}
    /\ filteredItems = << >>
    /\ currentTab = "shopping"
    /\ isLoading = TRUE
    /\ phase = "loadData"
    /\ shoppingRows = << >>
    /\ manageRows = {}
    /\ timers = [shopping |-> 0, manage |-> 0]
    /\ localStorage = [ns \in {ItemsNs, ShoppingNs, ShoppingStatusNs} |-> NoEntry]
    /\ quotaFull = FALSE
    /\ clock = 0
    /\ toast = Toast("none", "")
    /\ importRun = NoImport
    /\ payload = NoEntry
    /\ call = NoCall
    /\ listeners = NoListeners
    /\ asyncCalls = NoAsyncCalls
    /\ lastOp = [op |-> "constructor", id |-> "", held |-> {}]

loadData ==
    /\ phase = "loadData"
    /\ LET stored == StoreGet(localStorage, ItemsNs, JSNull)
           items == IF stored.t = "array" /\ Len(stored.v) > 0
                    THEN stored.v
                    ELSE groceryItems
       IN  /\ groceryItems' = items
           /\ filteredItems' = items
    /\ phase' = "loadShopping"
    /\ UNCHANGED importRun
    /\ UNCHANGED storeVars
    /\ lastOp' = [op |-> "loadData", id |-> "", held |-> {}]
    /\ UNCHANGED << shoppingSet, uncheckedSet, currentTab, isLoading,
                    shoppingRows, manageRows, timers, localStorage, quotaFull,
                    clock, toast >>

loadShopping ==
    /\ phase = "loadShopping"
    /\ LET shopping == StoreGet(localStorage, ShoppingNs, JSArr({}))
       IN  shoppingSet' = IF shopping.t = "array" THEN shopping.v ELSE shoppingSet
    /\ phase' = "loadShoppingStatus"
    /\ UNCHANGED importRun
    /\ UNCHANGED storeVars
    /\ lastOp' = [op |-> "loadShopping", id |-> "", held |-> {}]
    /\ UNCHANGED << groceryItems, uncheckedSet, filteredItems, currentTab,
                    isLoading, shoppingRows, manageRows, timers, localStorage,
                    quotaFull, clock, toast >>

loadShoppingStatus ==
    /\ phase = "loadShoppingStatus"
    /\ LET unchecked == StoreGet(localStorage, ShoppingStatusNs, JSArr({}))
       IN  uncheckedSet' = IF unchecked.t = "array" THEN unchecked.v ELSE uncheckedSet
    /\ phase' = "initDone"
    /\ UNCHANGED importRun
    /\ UNCHANGED storeVars
    /\ lastOp' = [op |-> "loadShoppingStatus", id |-> "", held |-> {}]
    /\ UNCHANGED << groceryItems, shoppingSet, filteredItems, currentTab,
                    isLoading, shoppingRows, manageRows, timers, localStorage,
                    quotaFull, clock, toast >>

\* the rest of init: isLoading = false, setupEventListeners, renderCurrentTab
initDone ==
    /\ phase = "initDone"
    /\ isLoading' = FALSE
    /\ phase' = "ready"
    /\ shoppingRows' = RenderShoppingList(groceryItems, shoppingSet, uncheckedSet, FALSE)
    /\ manageRows' = RenderManageTable(filteredItems)
    /\ UNCHANGED importRun
    /\ UNCHANGED storeVars
    /\ lastOp' = [op |-> "init", id |-> "", held |-> {}]
    /\ UNCHANGED << groceryItems, shoppingSet, uncheckedSet, filteredItems,
                    currentTab, timers, localStorage, quotaFull, clock, toast >>

\* the user reloads the page: a new GroceryApp over the same storage
Reload ==
    /\ phase = "ready"
    /\ groceryItems' = << >>
    /\ shoppingSet' = {}
    /\ uncheckedSet' = {}
    /\ filteredItems' = << >>
    /\ currentTab' = "shopping"
    /\ isLoading' = TRUE
    /\ phase' = "loadData"
    /\ shoppingRows' = << >>
    /\ manageRows' = {}
    /\ timers' = [shopping |-> 0, manage |-> 0]
    /\ toast' = Toast("none", "")
    /\ importRun' = NoImport
    /\ UNCHANGED storeVars
    /\ lastOp' = [op |-> "constructor", id |-> "", held |-> {}]
    /\ UNCHANGED << localStorage, quotaFull, clock >>


(***************************************************************************)
(* The handlers.  Each is the whole method: the writes to the stores, the  *)
(* filter refresh and the renders included.  handleImportFile alone is in  *)
(* three steps, its start, one iteration of its loop and its report; the   *)
(* loop is synchronous, so no other handler runs between them.  The store  *)
(* filters stay at their default (all stores), so applyCurrentFilter       *)
(* copies the Catalog.                                                     *)
(***************************************************************************)
\* parseFloat(text) || 0
FormPrice(text) ==
    IF Falsy(ParseFloat(text)) THEN 0 ELSE ParseFloat(text).n

\* handleCreateItem, the form holding the texts form.store, form.item and
\* form.price
handleCreateItem(form) ==
    LET newItem == [ id |-> "item-" \o ToString(clock),
                     store |-> form.store,
                     item |-> form.item,
                     price |-> FormPrice(form.price) ]
        items == Append(groceryItems, newItem)
    IN  /\ groceryItems' = items
        /\ localStorage' = StoreSet(localStorage, ItemsNs, JSArr(items), quotaFull)
        /\ filteredItems' = items
        /\ shoppingRows' = RenderShoppingList(items, shoppingSet, uncheckedSet, isLoading)
        /\ manageRows' = RenderManageTable(items)
        /\ toast' = Toast("success", "Item added successfully!")
        /\ UNCHANGED importRun
        /\ UNCHANGED storeVars
        /\ lastOp' = Op("handleCreateItem", newItem.id)
        /\ UNCHANGED << shoppingSet, uncheckedSet, currentTab, isLoading, phase,
                        timers, quotaFull, clock >>

\* the index findIndex returns: the first Item with the id, 0 for -1
FindIndex(items, itemId) ==
    IF itemId \in ItemIds(items)
    THEN CHOOSE i \in 1..Len(items) :
            /\ items[i].id = itemId
            /\ \A j \in 1..(i - 1) : items[j].id # itemId
    ELSE 0

\* a variant of handleEditItem that puts the edited Item last
handleEditItemMoved(itemId, form) ==
    LET itemIndex == FindIndex(groceryItems, itemId)
        items == SelectSeq(groceryItems, LAMBDA it : it.id # itemId)
                 \o << [ id |-> itemId,
                         store |-> form.store,
                         item |-> form.item,
                         price |-> FormPrice(form.price) ] >>
    IN  IF itemIndex # 0
        THEN /\ groceryItems' = items
             /\ filteredItems' = items
             /\ shoppingRows' = RenderShoppingList(items, shoppingSet, uncheckedSet, isLoading)
             /\ manageRows' = RenderManageTable(items)
             /\ localStorage' = StoreSet(localStorage, ItemsNs, JSArr(items), quotaFull)
             /\ toast' = Toast("success", "Item updated successfully!")
             /\ UNCHANGED importRun
             /\ UNCHANGED storeVars
             /\ lastOp' = Op("handleEditItem", itemId)
             /\ UNCHANGED << shoppingSet, uncheckedSet, currentTab, isLoading,
                             phase, timers, quotaFull, clock >>
        ELSE /\ UNCHANGED importRun
             /\ UNCHANGED storeVars
             /\ lastOp' = Op("handleEditItem", itemId)
             /\ UNCHANGED << groceryItems, shoppingSet, uncheckedSet, filteredItems,
                             currentTab, isLoading, phase, shoppingRows, manageRows,
                             timers, localStorage, quotaFull, clock, toast >>

\* handleEditItem, the form holding the id of the edited Item and the texts
handleEditItem(itemId, form) ==
    LET itemIndex == FindIndex(groceryItems, itemId)
        items == [groceryItems EXCEPT ![itemIndex] =
                    [ id |-> itemId,
                      store |-> form.store,
                      item |-> form.item,
                      price |-> FormPrice(form.price) ]]
    IN  IF itemIndex # 0
        THEN /\ groceryItems' = items
             /\ filteredItems' = items
             /\ shoppingRows' = RenderShoppingList(items, shoppingSet, uncheckedSet, isLoading)
             /\ manageRows' = RenderManageTable(items)
             /\ localStorage' = StoreSet(localStorage, ItemsNs, JSArr(items), quotaFull)
             /\ toast' = Toast("success", "Item updated successfully!")
             /\ UNCHANGED importRun
             /\ UNCHANGED storeVars
             /\ lastOp' = Op("handleEditItem", itemId)
             /\ UNCHANGED << shoppingSet, uncheckedSet, currentTab, isLoading,
                             phase, timers, quotaFull, clock >>
        ELSE /\ UNCHANGED importRun
             /\ UNCHANGED storeVars
             /\ lastOp' = Op("handleEditItem", itemId)
             /\ UNCHANGED << groceryItems, shoppingSet, uncheckedSet, filteredItems,
                             currentTab, isLoading, phase, shoppingRows, manageRows,
                             timers, localStorage, quotaFull, clock, toast >>

SelectSeq2(items, itemId) == SelectSeq(items, LAMBDA it : it.id # itemId)

\* a variant of removeItem that leaves the strike status of the id in place
removeItemKeepingStatus(itemId) ==
    LET items == SelectSeq2(groceryItems, itemId)
        selected == shoppingSet \ {itemId}
        ls1 == IF itemId \in shoppingSet
               THEN StoreSet(localStorage, ShoppingNs, JSArr(selected), quotaFull)
               ELSE localStorage
    IN  /\ groceryItems' = items
        /\ shoppingSet' = selected
        /\ uncheckedSet' = uncheckedSet
        /\ filteredItems' = items
        /\ shoppingRows' = RenderShoppingList(items, selected, uncheckedSet, isLoading)
        /\ manageRows' = RenderManageTable(items)
        /\ localStorage' = StoreSet(ls1, ItemsNs, JSArr(items), quotaFull)
        /\ toast' = Toast("success", "Item removed successfully!")
        /\ UNCHANGED importRun
        /\ UNCHANGED storeVars
        /\ lastOp' = Op("removeItem", itemId)
        /\ UNCHANGED << currentTab, isLoading, phase, timers, quotaFull, clock >>

\* removeItem
removeItem(itemId) ==
    LET items == SelectSeq2(groceryItems, itemId)
        selected == shoppingSet \ {itemId}
        unchecked == uncheckedSet \ {itemId}
        ls1 == IF itemId \in shoppingSet
               THEN StoreSet(localStorage, ShoppingNs, JSArr(selected), quotaFull)
               ELSE localStorage
        ls2 == IF itemId \in uncheckedSet
               THEN StoreSet(ls1, ShoppingStatusNs, JSArr(unchecked), quotaFull)
               ELSE ls1
    IN  /\ groceryItems' = items
        /\ shoppingSet' = selected
        /\ uncheckedSet' = unchecked
        /\ filteredItems' = items
        /\ shoppingRows' = RenderShoppingList(items, selected, unchecked, isLoading)
        /\ manageRows' = RenderManageTable(items)
        /\ localStorage' = StoreSet(ls2, ItemsNs, JSArr(items), quotaFull)
        /\ toast' = Toast("success", "Item removed successfully!")
        /\ UNCHANGED importRun
        /\ UNCHANGED storeVars
        /\ lastOp' = Op("removeItem", itemId)
        /\ UNCHANGED << currentTab, isLoading, phase, timers, quotaFull, clock >>

\* addToShopping
addToShopping(itemId) ==
    IF itemId \in shoppingSet
    THEN /\ toast' = Toast("danger", "Item already in shopping list")
         /\ manageRows' = RenderManageTable(filteredItems)
         /\ UNCHANGED importRun
         /\ UNCHANGED storeVars
         /\ lastOp' = Op("addToShopping", itemId)
         /\ UNCHANGED << groceryItems, shoppingSet, uncheckedSet, filteredItems,
                         currentTab, isLoading, phase, shoppingRows, timers,
                         localStorage, quotaFull, clock >>
    ELSE LET selected == shoppingSet \cup {itemId}
             unchecked == uncheckedSet \ {itemId}
             ls1 == StoreSet(localStorage, ShoppingNs, JSArr(selected), quotaFull)
         IN  /\ shoppingSet' = selected
             /\ uncheckedSet' = unchecked
             /\ localStorage' =
                    IF itemId \in uncheckedSet
                    THEN StoreSet(ls1, ShoppingStatusNs, JSArr(unchecked), quotaFull)
                    ELSE ls1
             /\ toast' = Toast("success", "Added to shopping list")
             /\ shoppingRows' =
                    IF currentTab = "shopping"
                    THEN RenderShoppingList(groceryItems, selected, unchecked, isLoading)
                    ELSE shoppingRows
             /\ manageRows' = RenderManageTable(filteredItems)
             /\ UNCHANGED importRun
             /\ UNCHANGED storeVars
             /\ lastOp' = Op("addToShopping", itemId)
             /\ UNCHANGED << groceryItems, filteredItems, currentTab, isLoading,
                             phase, timers, quotaFull, clock >>

\* removeFromShopping
removeFromShopping(itemId) ==
    IF itemId \notin shoppingSet
    THEN /\ UNCHANGED importRun
         /\ UNCHANGED storeVars
         /\ lastOp' = Op("removeFromShopping", itemId)
         /\ UNCHANGED << groceryItems, shoppingSet, uncheckedSet, filteredItems,
                         currentTab, isLoading, phase, shoppingRows, manageRows,
                         timers, localStorage, quotaFull, clock, toast >>
    ELSE LET selected == shoppingSet \ {itemId}
             unchecked == uncheckedSet \ {itemId}
             ls1 == StoreSet(localStorage, ShoppingNs, JSArr(selected), quotaFull)
         IN  /\ shoppingSet' = selected
             /\ uncheckedSet' = unchecked
             /\ localStorage' =
                    IF itemId \in uncheckedSet
                    THEN StoreSet(ls1, ShoppingStatusNs, JSArr(unchecked), quotaFull)
                    ELSE ls1
             /\ toast' = Toast("info", "Removed from shopping list")
             /\ shoppingRows' =
                    IF currentTab = "shopping"
                    THEN RenderShoppingList(groceryItems, selected, unchecked, isLoading)
                    ELSE shoppingRows
             /\ manageRows' = RenderManageTable(filteredItems)
             /\ UNCHANGED importRun
             /\ UNCHANGED storeVars
             /\ lastOp' = Op("removeFromShopping", itemId)
             /\ UNCHANGED << groceryItems, filteredItems, currentTab, isLoading,
                             phase, timers, quotaFull, clock >>

\* toggleItem, called by the change event of a switch; rows is the shopping
\* table at that moment, the switch already flipped by the click
toggleItem(itemId, rows) ==
    LET isChecked == itemId \in DOMAIN rows /\ rows[itemId]
        unchecked == IF isChecked
                     THEN uncheckedSet \ {itemId}
                     ELSE uncheckedSet \cup {itemId}
    IN  /\ uncheckedSet' = unchecked
        /\ localStorage' = StoreSet(localStorage, ShoppingStatusNs, JSArr(unchecked), quotaFull)
        /\ shoppingRows' =
               IF currentTab = "shopping"
               THEN RenderShoppingList(groceryItems, shoppingSet, unchecked, isLoading)
               ELSE rows
        /\ UNCHANGED importRun
        /\ UNCHANGED storeVars
        /\ lastOp' = Op("toggleItem", itemId)
        /\ UNCHANGED << groceryItems, shoppingSet, filteredItems, currentTab,
                        isLoading, phase, manageRows, timers, quotaFull, clock,
                        toast >>

\* clearShoppingList
clearShoppingList ==
    IF shoppingSet = {}
    THEN /\ toast' = Toast("danger", "Shopping list is already empty")
         /\ UNCHANGED importRun
         /\ UNCHANGED storeVars
         /\ lastOp' = Op("clearShoppingList", "")
         /\ UNCHANGED << groceryItems, shoppingSet, uncheckedSet, filteredItems,
                         currentTab, isLoading, phase, shoppingRows, manageRows,
                         timers, localStorage, quotaFull, clock >>
    ELSE /\ shoppingSet' = {}
         /\ uncheckedSet' = {}
         /\ localStorage' =
                StoreSet(StoreSet(localStorage, ShoppingNs, JSArr({}), quotaFull),
                         ShoppingStatusNs, JSArr({}), quotaFull)
         /\ shoppingRows' =
                IF currentTab = "shopping"
                THEN RenderShoppingList(groceryItems, {}, {}, isLoading)
                ELSE shoppingRows
         /\ toast' = Toast("success", "Shopping list cleared")
         /\ UNCHANGED importRun
         /\ UNCHANGED storeVars
         /\ lastOp' = Op("clearShoppingList", "")
         /\ UNCHANGED << groceryItems, filteredItems, currentTab, isLoading, phase,
                         manageRows, timers, quotaFull, clock >>

\* the suffix of the success toast of an import
ImportDetails(st) ==
    LET dup == ToString(st.skippedDuplicates) \o " duplicate(s) skipped"
        inv == ToString(st.skippedInvalid) \o " invalid item(s) skipped"
    IN  IF st.skippedDuplicates # 0 /\ st.skippedInvalid # 0
        THEN " (" \o dup \o ", " \o inv \o ")"
        ELSE IF st.skippedDuplicates # 0 THEN " (" \o dup \o ")"
        ELSE IF st.skippedInvalid # 0 THEN " (" \o inv \o ")"
        ELSE ""

\* handleImportFile from the parsed value on, up to the loop: isArray is
\* Array.isArray(data).  Toast.error is no function of toast.js: a call of it
\* throws, no toast is shown and the handler rejects.
handleImportFileStart(isArray) ==
    /\ UNCHANGED storeVars
    /\ lastOp' = Op("handleImportFile", "")
    /\ UNCHANGED << groceryItems, shoppingSet, uncheckedSet, filteredItems,
                    currentTab, isLoading, shoppingRows, manageRows, timers,
                    localStorage, quotaFull, clock, toast >>
    /\ IF isArray
       THEN /\ phase' = "importing"
            /\ importRun' = [st |-> ImportStart(groceryItems), n |-> 0]
       ELSE /\ importRun' = ImportRejected
            /\ UNCHANGED phase

\* one iteration of the loop of handleImportFile, over the record raw
handleImportFileRecord(raw) ==
    /\ phase = "importing"
    /\ importRun' = [st |-> ImportStep(importRun.st, raw, clock),
                     n |-> importRun.n + 1]
    /\ UNCHANGED storeVars
    /\ lastOp' = Op("handleImportFile", "")
    /\ UNCHANGED << groceryItems, shoppingSet, uncheckedSet, filteredItems,
                    currentTab, isLoading, phase, shoppingRows, manageRows,
                    timers, localStorage, quotaFull, clock, toast >>

\* a variant of the merge that puts the accepted Items first
MergeItemsFirst(items, toAdd) == toAdd \o items

\* this.groceryItems.push(...toAdd)
MergeItems(items, toAdd) == items \o toAdd

\* handleImportFile after the loop: the report, the merge, the save and the
\* renders.  When the save throws, the catch calls Toast.error, which throws:
\* the Items stay pushed, nothing is rendered and no toast is shown.
handleImportFileReport ==
    LET st == importRun.st
        items == MergeItems(groceryItems, st.toAdd)
    IN  /\ phase = "importing"
        /\ phase' = "ready"
        /\ importRun' = IF Len(st.toAdd) > 0 /\ quotaFull
                         THEN ImportRejected
                         ELSE NoImport
        /\ UNCHANGED storeVars
        /\ lastOp' = Op("handleImportFile", "")
        /\ UNCHANGED << shoppingSet, uncheckedSet, currentTab, isLoading,
                        timers, quotaFull, clock >>
        /\ IF Len(st.toAdd) = 0
           THEN /\ toast' =
                     IF st.skippedInvalid > 0
                     THEN Toast("warning", "No items imported: invalid or duplicate entries")
                     ELSE Toast("info", "No new items to import")
                /\ UNCHANGED << groceryItems, filteredItems, shoppingRows,
                                manageRows, localStorage >>
           ELSE /\ groceryItems' = items
                /\ IF quotaFull
                   THEN UNCHANGED << filteredItems, shoppingRows, manageRows,
                                     localStorage, toast >>
                   ELSE /\ localStorage' =
                              StoreSet(localStorage, ItemsNs, JSArr(items), quotaFull)
                        /\ filteredItems' = items
                        /\ shoppingRows' =
                              RenderShoppingList(items, shoppingSet, uncheckedSet, isLoading)
                        /\ manageRows' = RenderManageTable(items)
                        /\ toast' =
                              Toast("success",
                                    "Imported " \o ToString(Len(st.toAdd))
                                       \o " item(s)" \o ImportDetails(st))

\* click on #shopping-tab: the render is deferred by setTimeout
shoppingTabClick ==
    /\ currentTab' = "shopping"
    /\ timers' = [timers EXCEPT !.shopping = @ + 1]
    /\ UNCHANGED importRun
    /\ UNCHANGED storeVars
    /\ lastOp' = Op("shoppingTabClick", "")
    /\ UNCHANGED << groceryItems, shoppingSet, uncheckedSet, filteredItems,
                    isLoading, phase, shoppingRows, manageRows, localStorage,
                    quotaFull, clock, toast >>

\* click on #manage-tab
manageTabClick ==
    /\ currentTab' = "manage"
    /\ timers' = [timers EXCEPT !.manage = @ + 1]
    /\ UNCHANGED importRun
    /\ UNCHANGED storeVars
    /\ lastOp' = Op("manageTabClick", "")
    /\ UNCHANGED << groceryItems, shoppingSet, uncheckedSet, filteredItems,
                    isLoading, phase, shoppingRows, manageRows, localStorage,
                    quotaFull, clock, toast >>

\* the callback setTimeout(() => this.renderShoppingList(), 100)
shoppingRenderTimer ==
    /\ phase = "ready"
    /\ timers.shopping > 0
    /\ timers' = [timers EXCEPT !.shopping = @ - 1]
    /\ shoppingRows' = RenderShoppingList(groceryItems, shoppingSet, uncheckedSet, isLoading)
    /\ UNCHANGED importRun
    /\ UNCHANGED storeVars
    /\ lastOp' = Op("shoppingRenderTimer", "")
    /\ UNCHANGED << groceryItems, shoppingSet, uncheckedSet, filteredItems,
                    currentTab, isLoading, phase, manageRows, localStorage,
                    quotaFull, clock, toast >>

\* the callback setTimeout(() => this.renderManageTable(), 100)
manageRenderTimer ==
    /\ phase = "ready"
    /\ timers.manage > 0
    /\ timers' = [timers EXCEPT !.manage = @ - 1]
    /\ manageRows' = RenderManageTable(filteredItems)
    /\ UNCHANGED importRun
    /\ UNCHANGED storeVars
    /\ lastOp' = Op("manageRenderTimer", "")
    /\ UNCHANGED << groceryItems, shoppingSet, uncheckedSet, filteredItems,
                    currentTab, isLoading, phase, shoppingRows, localStorage,
                    quotaFull, clock, toast >>

(***************************************************************************)
(* The environment: the user, the clock and the storage backend.  The      *)
(* listeners are installed when init is done (phase "ready"); a row is     *)
(* clicked in the panel of the tab last clicked.  The loop of an import    *)
(* runs to its end before any other handler or timer: only the clock moves *)
(* meanwhile.                                                              *)
(***************************************************************************)
Form(store, item, price) == [store |-> store, item |-> item, price |-> price]

\* the forms the user submits
Forms == { Form("A", "m", "1"), Form("A", "", "-1") }

Record(f) == JSObj(f)

\* the records of import files
Records ==
    { Record([store |-> JSStr("A"), item |-> JSStr("m")]),
      Record([store |-> JSStr(" a "), item |-> JSStr("M"), id |-> JSStr("item-1"),
              price |-> JSNum(2)]),
      Record([store |-> JSStr(" "), item |-> JSStr("m"), id |-> JSStr("item-1")]),
      Record([store |-> JSStr("a"), item |-> JSStr("")]),
      Record([Store |-> JSStr("B"), name |-> JSStr("i"), id |-> JSStr("item-0-0"),
              price |-> JSStr("-1")]),
      JSNull }

createSubmit(forms, limit) ==
    /\ phase = "ready"
    /\ Len(groceryItems) < limit
    /\ \E form \in forms : handleCreateItem(form)

editSubmit(forms) ==
    /\ phase = "ready"
    /\ currentTab = "manage"
    /\ \E itemId \in manageRows : \E form \in forms : handleEditItem(itemId, form)

removeButtonClick ==
    /\ phase = "ready"
    /\ currentTab = "manage"
    /\ \E itemId \in manageRows : removeItem(itemId)

manageItemCellClick ==
    /\ phase = "ready"
    /\ currentTab = "manage"
    /\ \E itemId \in manageRows :
          IF itemId \in shoppingSet
          THEN removeFromShopping(itemId)
          ELSE addToShopping(itemId)

shoppingSwitchClick ==
    /\ phase = "ready"
    /\ currentTab = "shopping"
    /\ \E itemId \in DOMAIN shoppingRows :
          toggleItem(itemId, [shoppingRows EXCEPT ![itemId] = ~@])

clearShoppingClick ==
    /\ phase = "ready"
    /\ currentTab = "shopping"
    /\ clearShoppingList

tabClick ==
    /\ phase = "ready"
    /\ \/ timers.shopping < MaxTimers /\ shoppingTabClick
       \/ timers.manage < MaxTimers /\ manageTabClick

\* a file is chosen in #import-file and read: it parses to an array or to
\* something else
importFile ==
    /\ phase = "ready"
    /\ \E isArray \in BOOLEAN : handleImportFileStart(isArray)

\* the loop reaches the next record of the array, one of records; an array
\* holds at most MaxBatch records and fills the Catalog up to MaxItems Items
importRecord(records) ==
    /\ phase = "importing"
    /\ importRun.n < MaxBatch
    /\ \E raw \in records :
          /\ Len(groceryItems)
               + Len(ImportStep(importRun.st, raw, clock).toAdd) <= MaxItems
          /\ handleImportFileRecord(raw)

\* the loop has reached the end of the array
importDone == handleImportFileReport

Tick ==
    /\ clock < MaxClock
    /\ clock' = clock + 1
    /\ UNCHANGED << groceryItems, shoppingSet, uncheckedSet, filteredItems,
                    currentTab, isLoading, phase, shoppingRows, manageRows,
                    timers, localStorage, quotaFull, toast, importRun, lastOp,
                    payload, call, listeners, asyncCalls >>

\* the backend starts or stops rejecting writes
QuotaChange ==
    /\ quotaFull' = ~quotaFull
    /\ UNCHANGED << groceryItems, shoppingSet, uncheckedSet, filteredItems,
                    currentTab, isLoading, phase, shoppingRows, manageRows,
                    timers, localStorage, clock, toast, importRun, lastOp,
                    payload, call, listeners, asyncCalls >>

Startup == loadData \/ loadShopping \/ loadShoppingStatus \/ initDone

\* the form submitted where the shopping list and the import are explored
ListedForms == { Form("A", "m", "1") }

\* the shopping list of the page: startup, reload, create, delete, the
\* selection events, the tabs and their timers
Next ==
    \/ Startup
    \/ Reload
    \/ createSubmit(ListedForms, MaxListed)
    \/ removeButtonClick
    \/ manageItemCellClick
    \/ shoppingSwitchClick
    \/ clearShoppingClick
    \/ tabClick
    \/ shoppingRenderTimer
    \/ manageRenderTimer
    \/ Tick

\* over a backend that accepts every write
Spec == Init /\ [][Next]_vars

\* over a backend that may reject writes
SpecQuota == Init /\ [][Next \/ QuotaChange]_vars

\* the records imported where the Manage tab is explored
ManageRecords == { r \in Records : RawId(r) = "item-1" /\ ~Falsy(RawPrice(r)) }

\* the Catalog of the page: create, edit, delete and import from the
\* Manage tab
NextCatalog ==
    \/ Startup
    \/ createSubmit(Forms, MaxItems)
    \/ editSubmit(Forms)
    \/ removeButtonClick
    \/ tabClick
    \/ shoppingRenderTimer
    \/ manageRenderTimer
    \/ importFile
    \/ importRecord(ManageRecords)
    \/ importDone
    \/ Tick

SpecCatalog == Init /\ [][NextCatalog]_vars

\* the import merge over every import file, on the Catalogs that create and
\* import build
NextImport ==
    \/ Startup
    \/ createSubmit(ListedForms, MaxItems)
    \/ importFile
    \/ importRecord(Records)
    \/ importDone
    \/ Tick

SpecImport == Init /\ [][NextImport]_vars

(***************************************************************************)
(* The DataStore on its own, over the web-storage backend.  The backend    *)
(* holds text: set writes what JSON.stringify gives, get reads it back     *)
(* with JSON.parse, and both are computed here character by character.     *)
(* An object is the sequence of its own properties in insertion order, the *)
(* order JSON.stringify writes them in (no key of the model is an array    *)
(* index, which JavaScript would move to the front).  Numbers are          *)
(* integers, and the strings of the model need no escape but those of the  *)
(* quote and the backslash.  The three stores of the page hold arrays of   *)
(* Items and of ids, which come back from the text as they went in, so     *)
(* localStorage above keeps their values.                                  *)
(***************************************************************************)
JSBool(b) == [t |-> "boolean", b |-> b]
Prop(k, v) == [k |-> k, v |-> v]
JSObject(props) == [t |-> "object", props |-> props]

\* an object that holds a reference to itself
JSCircular == [t |-> "circular"]

\* a function
JSFunction == [t |-> "function"]

\* key in obj, for the own properties of an object
HasProp(props, k) == \E i \in 1..Len(props) : props[i].k = k
PropIndex(props, k) == CHOOSE i \in 1..Len(props) : props[i].k = k

\* obj[key]
GetProp(props, k) == props[PropIndex(props, k)].v

\* the key is written like an index of an array: digits without a leading
\* zero
IsIndex(key) ==
    /\ key # ""
    /\ DigitPrefix(key) = key
    /\ key = "0" \/ Head(key) # "0"

\* the number of keys an object lists before a new key k: a key written
\* like an index goes after the smaller ones of its kind and before every
\* other key, another key goes last
KeysBefore(props, k) ==
    IF ~IsIndex(k) THEN Len(props)
    ELSE Cardinality({ i \in 1..Len(props) :
                         /\ IsIndex(props[i].k)
                         /\ DigitsValue(props[i].k, 0) < DigitsValue(k, 0) })

\* obj[key] = v: a known key keeps its place, a new one takes the place the
\* order of the keys of an object gives it
SetProp(props, k, v) ==
    IF HasProp(props, k)
    THEN [props EXCEPT ![PropIndex(props, k)] = Prop(k, v)]
    ELSE SubSeq(props, 1, KeysBefore(props, k))
         \o << Prop(k, v) >>
         \o SubSeq(props, KeysBefore(props, k) + 1, Len(props))

\* delete obj[key]
DeleteProp(props, k) == SelectSeq(props, LAMBDA p : p.k # k)

\* the characters of a string as JSON.stringify writes them between quotes
RECURSIVE EscapeChars(_)
EscapeChars(s) ==
    IF s = "" THEN ""
    ELSE (IF Head(s) = "\"" THEN "\\\""
          ELSE IF Head(s) = "\\" THEN "\\\\"
          ELSE Head(s)) \o EscapeChars(Tail(s))

\* a variant of the quoting that escapes nothing
QuoteStringRaw(s) == "\"" \o s \o "\""

QuoteString(s) == "\"" \o EscapeChars(s) \o "\""

\* the text of a value JSON.stringify has a text for: an element of an
\* array that is undefined or a function is written null, such a property
\* is left out
RECURSIVE SerializeValue(_), SerializeElements(_), SerializeProps(_, _)
SerializeValue(v) ==
    CASE v.t = "null" -> "null"
      [] v.t = "NaN" -> "null"
      [] v.t = "boolean" -> IF v.b THEN "true" ELSE "false"
      [] v.t = "number" -> JSString(v)
      [] v.t = "string" -> QuoteString(v.s)
      [] v.t = "array" -> "[" \o SerializeElements(v.v) \o "]"
      [] v.t = "object" -> "{" \o SerializeProps(v.props, "") \o "}"

SerializeElements(elems) ==
    IF Len(elems) = 0 THEN ""
    ELSE (IF Head(elems).t \in {"undefined", "function"} THEN "null"
          ELSE SerializeValue(Head(elems)))
         \o (IF Len(elems) > 1 THEN "," ELSE "")
         \o SerializeElements(Tail(elems))

\* sep is the separator due before the next property written
SerializeProps(props, sep) ==
    IF Len(props) = 0 THEN ""
    ELSE IF Head(props).v.t \in {"undefined", "function"}
    THEN SerializeProps(Tail(props), sep)
    ELSE sep \o QuoteString(Head(props).k) \o ":"
         \o SerializeValue(Head(props).v)
         \o SerializeProps(Tail(props), ",")

Thrown(message) == [t |-> "throw", message |-> message]

\* the value is, or holds at some depth, an object that holds itself
RECURSIVE HasCircular(_)
HasCircular(value) ==
    CASE value.t = "circular" -> TRUE
      [] value.t = "array" ->
            \E i \in 1..Len(value.v) : HasCircular(value.v[i])
      [] value.t = "object" ->
            \E i \in 1..Len(value.props) : HasCircular(value.props[i].v)
      [] OTHER -> FALSE

\* JSON.stringify(value): a string, undefined for undefined and for a
\* function, or a TypeError for an object that holds itself
JSONStringify(value) ==
    CASE HasCircular(value) -> Thrown("Converting circular structure to JSON")
      [] value.t \in {"undefined", "function"} -> JSUndefined
      [] OTHER -> JSStr(SerializeValue(value))

\* F(x) with x evaluated once, however often F uses it
With(x, F(_)) == CHOOSE r \in { F(e) : e \in {x} } : TRUE

ParseFail == [ok |-> FALSE]
Parsed(v, rest) == [ok |-> TRUE, v |-> v, rest |-> rest]
StartsWith(s, p) == Len(s) >= Len(p) /\ SubSeq(s, 1, Len(p)) = p
Drop(s, n) == SubSeq(s, n + 1, Len(s))

\* the characters of a string literal after its opening quote
RECURSIVE ParseChars(_, _)
ParseChars(s, acc) ==
    IF s = "" THEN ParseFail
    ELSE IF Head(s) = "\"" THEN Parsed(JSStr(acc), Tail(s))
    ELSE IF Head(s) = "\\"
    THEN IF Len(s) >= 2 /\ SubSeq(s, 2, 2) \in {"\"", "\\"}
         THEN ParseChars(Drop(s, 2), acc \o SubSeq(s, 2, 2))
         ELSE ParseFail
    ELSE ParseChars(Tail(s), acc \o Head(s))

\* a number literal: an optional sign and digits without a leading zero
ParseNumber(s) ==
    LET neg == StartsWith(s, "-")
        body == IF neg THEN Tail(s) ELSE s
        digits == DigitPrefix(body)
    IN  IF digits = "" \/ (Len(digits) > 1 /\ Head(digits) = "0")
        THEN ParseFail
        ELSE Parsed(JSNum(IF neg THEN -DigitsValue(digits, 0)
                                 ELSE DigitsValue(digits, 0)),
                    Drop(body, Len(digits)))

RECURSIVE ParseValue(_), ParseElements(_, _), ParseMembers(_, _)
ParseValue(s0) ==
    With(TrimStart(s0), LAMBDA s :
        IF s = "" THEN ParseFail
        ELSE IF StartsWith(s, "null") THEN Parsed(JSNull, Drop(s, 4))
        ELSE IF StartsWith(s, "true") THEN Parsed(JSBool(TRUE), Drop(s, 4))
        ELSE IF StartsWith(s, "false") THEN Parsed(JSBool(FALSE), Drop(s, 5))
        ELSE IF Head(s) = "\"" THEN ParseChars(Tail(s), "")
        ELSE IF Head(s) = "["
        THEN IF StartsWith(TrimStart(Tail(s)), "]")
             THEN Parsed(JSArr(<< >>), Tail(TrimStart(Tail(s))))
             ELSE ParseElements(Tail(s), << >>)
        ELSE IF Head(s) = "{"
        THEN IF StartsWith(TrimStart(Tail(s)), "}")
             THEN Parsed(JSObject(<< >>), Tail(TrimStart(Tail(s))))
             ELSE ParseMembers(Tail(s), << >>)
        ELSE ParseNumber(s))

\* the elements of an array from the next one on, acc those read
ParseElements(s, acc) ==
    With(ParseValue(s), LAMBDA e :
        IF ~e.ok THEN ParseFail
        ELSE With(TrimStart(e.rest), LAMBDA r :
            IF StartsWith(r, ",")
            THEN With(<< Tail(r), Append(acc, e.v) >>, LAMBDA next :
                    ParseElements(next[1], next[2]))
            ELSE IF StartsWith(r, "]")
            THEN Parsed(JSArr(Append(acc, e.v)), Tail(r))
            ELSE ParseFail))

\* the members of an object from the next one on, acc those read; a key
\* read twice keeps its first place and its last value
ParseMembers(s0, acc) ==
    With(TrimStart(s0), LAMBDA s :
        IF ~StartsWith(s, "\"") THEN ParseFail
        ELSE With(ParseChars(Tail(s), ""), LAMBDA k :
            IF ~k.ok THEN ParseFail
            ELSE IF ~StartsWith(TrimStart(k.rest), ":") THEN ParseFail
            ELSE With(ParseValue(Tail(TrimStart(k.rest))), LAMBDA e :
                IF ~e.ok THEN ParseFail
                ELSE With(<< TrimStart(e.rest), SetProp(acc, k.v.s, e.v) >>,
                          LAMBDA next :
                    IF StartsWith(next[1], ",")
                    THEN ParseMembers(Tail(next[1]), next[2])
                    ELSE IF StartsWith(next[1], "}")
                    THEN Parsed(JSObject(next[2]), Tail(next[1]))
                    ELSE ParseFail))))

\* JSON.parse(text): ParseFail stands for the SyntaxError
JSONParse(text) ==
    With(ParseValue(text), LAMBDA r :
        IF r.ok /\ TrimStart(r.rest) = "" THEN r ELSE ParseFail)

(***************************************************************************)
(* The methods of the DataStore.  p is the text the backend holds under    *)
(* the namespace, full says the backend rejects writes.  A method gives    *)
(* the outcome of its promise and the text the backend holds afterwards.   *)
(***************************************************************************)
Resolved(ret, p) ==
    [ok |-> TRUE, ret |-> ret, error |-> "", payload |-> p, events |-> << >>]
Rejected(error, p) ==
    [ ok |-> FALSE, ret |-> JSUndefined, error |-> error, payload |-> p,
      events |-> << >> ]

\* the outcome of a method that ends like the call it awaited but returns
\* ret
Returning(saved, ret) == [saved EXCEPT !.ret = ret]

\* a change event: its kind, its data and, as history, the text the backend
\* holds when it is dispatched
Event(type, data, stored) == [type |-> type, data |-> data, stored |-> stored]

\* _dispatchChangeEvent(type, data) at the end of a method that has written
Emit(out, type, data) ==
    [out EXCEPT !.events = Append(@, Event(type, data, out.payload))]

\* a variant whose event data leave the path out
PathDataBare(itemPath, props) == JSObject(props)

\* { path, [name]: old, ... }: the data of an event about a path
PathData(itemPath, props) ==
    JSObject(<< Prop("path", JSStr(itemPath)) >> \o props)

\* a variant of get that gives undefined, not the default, for a text that
\* does not parse
getUndefinedOnParseError(p, defaultValue) ==
    IF p = NoEntry THEN defaultValue
    ELSE With(JSONParse(p.s), LAMBDA r : IF r.ok THEN r.v ELSE JSUndefined)

\* get(defaultValue): getItem gives null when the backend holds nothing
get(p, defaultValue) ==
    IF p = NoEntry THEN defaultValue
    ELSE With(JSONParse(p.s), LAMBDA r : IF r.ok THEN r.v ELSE defaultValue)

\* _validateValue(value): the message of the Error thrown, "" when none is
validateValue(value) ==
    IF value.t = "undefined" THEN "Cannot store undefined value"
    ELSE IF JSONStringify(value).t = "throw"
    THEN "Cannot store value with circular references"
    ELSE ""

\* a variant of set that resolves before the backend has taken the value
setUnwritten(p, value, full) ==
    With(validateValue(value), LAMBDA error :
        IF error # "" THEN Rejected("Failed to set data: " \o error, p)
        ELSE Resolved(JSUndefined, p))

\* a variant of set that loses the text held when the backend rejects the
\* write
setLosingOnQuota(p, value, full) ==
    With(validateValue(value), LAMBDA error :
        IF error # "" THEN Rejected("Failed to set data: " \o error, p)
        ELSE IF full
        THEN Rejected("Failed to set data: Storage quota exceeded", NoEntry)
        ELSE Emit(Resolved(JSUndefined, JSStr(JSString(JSONStringify(value)))),
                  "set", value))

\* set(value): setItem turns what it is given into a string
set(p, value, full) ==
    With(validateValue(value), LAMBDA error :
        IF error # "" THEN Rejected("Failed to set data: " \o error, p)
        ELSE IF full
        THEN Rejected("Failed to set data: Storage quota exceeded", p)
        ELSE Emit(Resolved(JSUndefined, JSStr(JSString(JSONStringify(value)))),
                  "set", value))

\* clear()
clear(p) == Emit(Resolved(JSUndefined, NoEntry), "clear", JSNull)

\* what add throws for the data read before it writes, "" when it goes
\* on to write
addRefusal(data, value, allowDuplicates) ==
    IF data.t # "array" THEN "does not contain an array"
    ELSE IF ~allowDuplicates /\ Len(data.v) > 0
            /\ JSONStringify(value).t = "throw"
    THEN JSONStringify(value).message
    ELSE IF /\ ~allowDuplicates
            /\ \E i \in 1..Len(data.v) :
                  JSONStringify(data.v[i]) = JSONStringify(value)
    THEN "Duplicate value not allowed"
    ELSE ""

\* what add returns once set has settled as saved
addReturn(data, saved) ==
    IF saved.ok THEN Returning(saved, JSNum(Len(data.v) + 1)) ELSE saved

\* add(value, allowDuplicates), awaited alone: p is the text held all along
add(p, value, allowDuplicates, full) ==
    IF value.t \in {"undefined", "null"}
    THEN Rejected("Cannot add undefined or null value", p)
    ELSE With(get(p, JSArr(<< >>)), LAMBDA data :
        IF addRefusal(data, value, allowDuplicates) # ""
        THEN Rejected(addRefusal(data, value, allowDuplicates), p)
        ELSE addReturn(data, set(p, JSArr(Append(data.v, value)), full)))

(***************************************************************************)
(* Paths.  A path is a string of segments joined by dots.  The data read   *)
(* from the backend is a fresh value, so what the code does through the    *)
(* references parent and parent[key] is computed here on the data and the  *)
(* segments that lead to parent.  No segment of the model is the name of a *)
(* member that objects inherit; length, which every array has, is a        *)
(* segment the model reads and deletes by, and never one it assigns to.    *)
(***************************************************************************)
\* path.split('.'), part holding the characters of the segment being read
RECURSIVE SplitPath(_, _)
SplitPath(s, part) ==
    IF s = "" THEN << part >>
    ELSE IF Head(s) = "." THEN << part >> \o SplitPath(Tail(s), "")
    ELSE SplitPath(Tail(s), part \o Head(s))

\* typeof v === 'object': null and arrays included
TypeofObject(v) == v.t \in {"null", "object", "array", "circular"}

\* the operator in accepts the value on its right; it throws a TypeError
\* for a primitive, and parent[key] = value throws one for a primitive in
\* the strict code of a class
Indexable(parent) == parent.t \in {"object", "array"}

\* key in parent, for an object or an array
In(parent, key) ==
    IF parent.t = "object" THEN HasProp(parent.props, key)
    ELSE \/ key = "length"
         \/ IsIndex(key) /\ DigitsValue(key, 0) < Len(parent.v)

\* parent[key], for a parent that is not null or undefined
ReadProp(parent, key) ==
    CASE parent.t = "object" ->
            IF HasProp(parent.props, key) THEN GetProp(parent.props, key)
            ELSE JSUndefined
      [] parent.t = "array" ->
            IF key = "length" THEN JSNum(Len(parent.v))
            ELSE IF In(parent, key) THEN parent.v[DigitsValue(key, 0) + 1]
            ELSE JSUndefined
      [] parent.t = "string" ->
            IF IsIndex(key) /\ DigitsValue(key, 0) < Len(parent.s)
            THEN JSStr(SubSeq(parent.s, DigitsValue(key, 0) + 1,
                              DigitsValue(key, 0) + 1))
            ELSE JSUndefined
      [] OTHER -> JSUndefined

\* parent[key] = value, for an object or an array: an index past the end
\* of an array leaves holes before it, which JSON.stringify writes as null,
\* and a key of an array that is no index is a property JSON.stringify does
\* not write
WriteProp(parent, key, value) ==
    IF parent.t = "object" THEN JSObject(SetProp(parent.props, key, value))
    ELSE IF ~IsIndex(key) THEN parent
    ELSE IF DigitsValue(key, 0) < Len(parent.v)
    THEN JSArr([parent.v EXCEPT ![DigitsValue(key, 0) + 1] = value])
    ELSE JSArr(parent.v
               \o [i \in 1..(DigitsValue(key, 0) - Len(parent.v)) |-> JSUndefined]
               \o << value >>)

\* the value the segments lead to
RECURSIVE ValueAt(_, _)
ValueAt(data, segs) ==
    IF Len(segs) = 0 THEN data
    ELSE ValueAt(ReadProp(data, Head(segs)), Tail(segs))

\* the data once the value the segments lead to is replaced
RECURSIVE AssignAt(_, _, _)
AssignAt(data, segs, value) ==
    IF Len(segs) = 0 THEN value
    ELSE WriteProp(data, Head(segs),
                   AssignAt(ReadProp(data, Head(segs)), Tail(segs), value))

\* the array without the element at the index: parent.splice(index, 1)
Splice(elems, index) ==
    SubSeq(elems, 1, index) \o SubSeq(elems, index + 2, Len(elems))

NavFail(error) == [ok |-> FALSE, error |-> error]

\* parent is the value the segments at lead to in data, or a new empty
\* object out of reach of JSON.stringify when detached
NavOk(data, at, key, detached) ==
    [ ok |-> TRUE, error |-> "", data |-> data, at |-> at, key |-> key,
      detached |-> detached,
      parent |-> IF detached THEN JSObject(<< >>) ELSE ValueAt(data, at) ]

\* the loop of _navigateToPath over the segments before the last
RECURSIVE NavigateParts(_, _, _, _, _)
NavigateParts(data, at, parts, key, create) ==
    IF Len(parts) = 0 THEN NavOk(data, at, key, FALSE)
    ELSE With(<< ValueAt(data, at), Head(parts) >>, LAMBDA here :
        LET parent == here[1]
            part == here[2]
        IN  IF parent.t \in {"null", "undefined"}
            THEN NavFail("Cannot navigate through null/undefined")
            ELSE IF ~Indexable(parent)
            THEN NavFail("TypeError: cannot use 'in' operator")
            ELSE IF In(parent, part)
            THEN NavigateParts(data, Append(at, part), Tail(parts), key,
                               create)
            ELSE IF ~create THEN NavFail("Path not found")
            ELSE IF parent.t = "array" /\ ~IsIndex(part)
            THEN NavOk(data, at, key, TRUE)
            ELSE With(AssignAt(data, Append(at, part), JSObject(<< >>)),
                      LAMBDA created :
                    NavigateParts(created, Append(at, part), Tail(parts), key,
                                  create)))

\* _navigateToPath(data, path, create)
navigateToPath(data, path, create) ==
    With(SplitPath(path, ""), LAMBDA pathParts :
        NavigateParts(data, << >>, SubSeq(pathParts, 1, Len(pathParts) - 1),
                      pathParts[Len(pathParts)], create))

\* _validatePath(path), for a string
validatePath(path) == Trim(path) # ""

\* appendItem(itemPath, value)
appendItem(p, itemPath, value, full) ==
    IF value.t \in {"undefined", "null"}
    THEN Rejected("Cannot add undefined or null value", p)
    ELSE IF ~validatePath(itemPath)
    THEN Rejected("Path must be a non-empty string", p)
    ELSE With(get(p, JSUndefined), LAMBDA data :
        IF Falsy(data) THEN Rejected("No data found in namespace", p)
        ELSE With(navigateToPath(data, itemPath, FALSE), LAMBDA nav :
            IF ~nav.ok THEN Rejected(nav.error, p)
            ELSE IF nav.parent.t \in {"null", "undefined"}
            THEN Rejected("TypeError: cannot read properties of null", p)
            ELSE With(ReadProp(nav.parent, nav.key), LAMBDA target :
                IF target.t # "array"
                THEN Rejected("Path does not point to an array", p)
                ELSE With(AssignAt(nav.data, Append(nav.at, nav.key),
                                   JSArr(Append(target.v, value))),
                          LAMBDA pushed :
                        With(set(p, pushed, full), LAMBDA saved :
                            IF saved.ok
                            THEN Returning(saved, JSNum(Len(target.v) + 1))
                            ELSE saved)))))

\* editItem(itemPath, value, createPath)
editItem(p, itemPath, value, createPath, full) ==
    IF ~validatePath(itemPath)
    THEN Rejected("Path must be a non-empty string", p)
    ELSE With(get(p, JSUndefined), LAMBDA stored :
        IF Falsy(stored) /\ ~createPath
        THEN Rejected("No data found in namespace", p)
        ELSE With(navigateToPath(IF Falsy(stored) THEN JSObject(<< >>)
                                                  ELSE stored,
                                 itemPath, createPath),
                  LAMBDA nav :
            IF ~nav.ok THEN Rejected(nav.error, p)
            ELSE IF ~Indexable(nav.parent)
            THEN Rejected("TypeError: not an object", p)
            ELSE IF ~createPath /\ ~In(nav.parent, nav.key)
            THEN Rejected("Path not found", p)
            ELSE With(IF nav.detached THEN nav.data
                      ELSE AssignAt(nav.data, Append(nav.at, nav.key), value),
                      LAMBDA edited :
                    With(set(p, edited, full), LAMBDA saved :
                        IF saved.ok
                        THEN Emit(Returning(saved, JSUndefined), "edit",
                                  PathData(itemPath,
                                      << Prop("oldValue",
                                              ReadProp(nav.parent, nav.key)),
                                         Prop("newValue", value) >>))
                        ELSE saved))))

\* the check deleteItem makes of the key of an array: Number(key) is a
\* number, not negative and less than the length
ArrayIndex(parent, key) ==
    /\ JSNumber(JSStr(key)).t = "number"
    /\ JSNumber(JSStr(key)).n >= 0
    /\ JSNumber(JSStr(key)).n < Len(parent.v)

\* deleteItem(itemPath)
deleteItem(p, itemPath, full) ==
    IF ~validatePath(itemPath)
    THEN Rejected("Path must be a non-empty string", p)
    ELSE With(get(p, JSUndefined), LAMBDA data :
        IF Falsy(data) THEN Resolved(JSBool(FALSE), p)
        ELSE With(navigateToPath(data, itemPath, FALSE), LAMBDA nav :
            IF ~nav.ok THEN Rejected(nav.error, p)
            ELSE IF ~Indexable(nav.parent)
            THEN Rejected("TypeError: cannot use 'in' operator", p)
            ELSE IF ~In(nav.parent, nav.key) THEN Resolved(JSBool(FALSE), p)
            ELSE IF nav.parent.t = "array" /\ ~ArrayIndex(nav.parent, nav.key)
            THEN Rejected("Invalid array index: " \o nav.key, p)
            ELSE With(AssignAt(nav.data, nav.at,
                               IF nav.parent.t = "array"
                               THEN JSArr(Splice(nav.parent.v,
                                                 DigitsValue(nav.key, 0)))
                               ELSE JSObject(DeleteProp(nav.parent.props,
                                                        nav.key))),
                      LAMBDA removed :
                    With(set(p, removed, full), LAMBDA saved :
                        IF saved.ok
                        THEN Emit(Returning(saved, JSBool(TRUE)), "deleteItem",
                                  PathData(itemPath,
                                      << Prop("deletedValue",
                                              ReadProp(nav.parent, nav.key)) >>))
                        ELSE saved))))

\* the functions update is called with, by what they return for the
\* current data: the data itself, an empty object, undefined, or nothing
\* because they throw
Updaters == { "same", "empty", "undefined", "throw" }

\* update(updater, defaultValue), for a function
update(p, updater, defaultValue, full) ==
    IF updater = "throw" THEN Rejected("thrown by the updater", p)
    ELSE With(CASE updater = "same" -> get(p, defaultValue)
                [] updater = "empty" -> JSObject(<< >>)
                [] OTHER -> JSUndefined,
              LAMBDA newData :
            With(set(p, newData, full), LAMBDA saved :
                IF saved.ok THEN Returning(saved, newData) ELSE saved))

\* { ...v }: the own properties of an object, none for null
Spread(v) == IF v.t = "object" THEN v.props ELSE << >>

\* the properties of target overwritten and followed by those of source
RECURSIVE Assign(_, _)
Assign(target, source) ==
    IF Len(source) = 0 THEN target
    ELSE Assign(SetProp(target, Head(source).k, Head(source).v), Tail(source))

\* a value the deep merge goes into
IsMergeable(v) == v.t = "object"

\* a variant of _deepMerge that replaces the objects under the keys of the
\* source
deepMergeReplacing(target, source) ==
    JSObject(Assign(Spread(target), source.props))

\* one turn of the loop of _deepMerge, on the property prop of the source
RECURSIVE MergeKey(_, _)

\* the loop of _deepMerge over the properties of the source
RECURSIVE MergeLoop(_, _)
MergeLoop(result, props) ==
    IF Len(props) = 0 THEN result
    ELSE With(MergeKey(result, Head(props)), LAMBDA merged :
            MergeLoop(merged, Tail(props)))

\* _deepMerge(target, source), for a source that is an object
deepMerge(target, source) ==
    JSObject(MergeLoop(Spread(target), source.props))

MergeKey(result, prop) ==
    IF /\ IsMergeable(prop.v)
       /\ HasProp(result, prop.k)
       /\ IsMergeable(GetProp(result, prop.k))
    THEN With(deepMerge(GetProp(result, prop.k), prop.v), LAMBDA inner :
            SetProp(result, prop.k, inner))
    ELSE SetProp(result, prop.k, prop.v)

\* merge(newData, deep)
merge(p, newData, deep, full) ==
    IF ~TypeofObject(newData) \/ newData.t \in {"null", "array"}
    THEN Rejected("TypeError: Data to merge must be a plain object", p)
    ELSE With(get(p, JSObject(<< >>)), LAMBDA currentData :
        IF ~TypeofObject(currentData) \/ currentData.t = "array"
        THEN Rejected("Cannot merge with non-object data", p)
        ELSE With(IF newData.t = "circular" THEN JSCircular
                  ELSE IF deep THEN deepMerge(currentData, newData)
                  ELSE JSObject(Assign(Spread(currentData), newData.props)),
                  LAMBDA merged :
                With(set(p, merged, full), LAMBDA saved :
                    IF saved.ok THEN Returning(saved, merged) ELSE saved)))

(***************************************************************************)
(* Calls on the DataStore, and the values they are made with.              *)
(***************************************************************************)
\* the namespace of the DataStore used on its own
StoreNs == "store"

\* the callbacks registered as listeners, by what they do when called:
\* return or throw, or remove themselves from the listeners of the kind
Callbacks == { "plain", "once" }

\* removeEventListener(type, callback) on the callbacks of the kind: the
\* first place that holds the callback is spliced out
RemoveFirst(list, callback) ==
    IF \A i \in 1..Len(list) : list[i] # callback THEN list
    ELSE With(CHOOSE i \in 1..Len(list) :
                  /\ list[i] = callback
                  /\ \A j \in 1..(i - 1) : list[j] # callback,
              LAMBDA index :
                SubSeq(list, 1, index - 1) \o SubSeq(list, index + 1, Len(list)))

\* listeners.forEach(callback => ...): the places 1..len of the array are
\* visited in order, a place the array no longer has is passed over, and
\* what a callback throws is caught; called holds the callbacks called
RECURSIVE ForEach(_, _, _, _)
ForEach(list, k, len, called) ==
    IF k > len THEN [list |-> list, called |-> called]
    ELSE IF k > Len(list) THEN ForEach(list, k + 1, len, called)
    ELSE With(IF list[k] = "once" THEN RemoveFirst(list, list[k]) ELSE list,
              LAMBDA left :
                ForEach(left, k + 1, len, Append(called, list[k])))

\* what a receiver is handed: the event bus of the window gets the detail
\* of a CustomEvent, a callback the object built for it
Delivered(to, e) ==
    [to |-> to, namespace |-> StoreNs, type |-> e.type, data |-> e.data,
     stored |-> e.stored]

\* _dispatchChangeEvent for each event of a call, in order: ls are the
\* listeners and delivered the deliveries so far
RECURSIVE Dispatch(_, _, _)
Dispatch(events, ls, delivered) ==
    IF Len(events) = 0 THEN [listeners |-> ls, delivered |-> delivered]
    ELSE With(<< Head(events),
                 ForEach(ls[Head(events).type], 1,
                         Len(ls[Head(events).type]), << >>) >>,
              LAMBDA d :
                Dispatch(Tail(events),
                         [ls EXCEPT ![d[1].type] = d[2].list],
                         delivered \o << Delivered("window", d[1]) >>
                         \o [i \in 1..Len(d[2].called) |->
                                Delivered(d[2].called[i], d[1])]))

\* the history of a call: its arguments (value, path and flag, as far as
\* the method has them), the text held, the state of the backend and the
\* listeners when it was made, its outcome out and what it delivered
CallRecord(op, value, path, flag, out) ==
    [ op |-> op, value |-> value, path |-> path, flag |-> flag,
      before |-> payload, full |-> quotaFull, registered |-> listeners,
      ok |-> out.ok, ret |-> out.ret, error |-> out.error,
      delivered |-> Dispatch(out.events, listeners, << >>).delivered ]

\* the backend holds at most MaxPayload characters under the namespace
Fits(p) == p # NoEntry => Len(p.s) <= MaxPayload

callSet(values) ==
    \E value \in values :
        \E out \in { set(payload, value, quotaFull) } :
            /\ Fits(out.payload)
            /\ payload' = out.payload
            /\ call' = CallRecord("set", value, "", FALSE, out)
            /\ listeners' = Dispatch(out.events, listeners, << >>).listeners
            /\ UNCHANGED << pageVars, quotaFull, asyncCalls >>

callGet(defaults) ==
    \E defaultValue \in defaults :
        \E out \in { Resolved(get(payload, defaultValue), payload) } :
            /\ payload' = out.payload
            /\ call' = CallRecord("get", defaultValue, "", FALSE, out)
            /\ listeners' = Dispatch(out.events, listeners, << >>).listeners
            /\ UNCHANGED << pageVars, quotaFull, asyncCalls >>

callClear ==
    \E out \in { clear(payload) } :
        /\ payload' = out.payload
        /\ call' = CallRecord("clear", JSUndefined, "", FALSE, out)
        /\ listeners' = Dispatch(out.events, listeners, << >>).listeners
        /\ UNCHANGED << pageVars, quotaFull, asyncCalls >>

callAdd(values) ==
    \E value \in values, allowDuplicates \in BOOLEAN :
        \E out \in { add(payload, value, allowDuplicates, quotaFull) } :
            /\ Fits(out.payload)
            /\ payload' = out.payload
            /\ call' = CallRecord("add", value, "", allowDuplicates, out)
            /\ listeners' = Dispatch(out.events, listeners, << >>).listeners
            /\ UNCHANGED << pageVars, quotaFull, asyncCalls >>

callAppendItem(paths, values) ==
    \E itemPath \in paths, value \in values :
        \E out \in { appendItem(payload, itemPath, value, quotaFull) } :
            /\ Fits(out.payload)
            /\ payload' = out.payload
            /\ call' = CallRecord("appendItem", value, itemPath, FALSE, out)
            /\ listeners' = Dispatch(out.events, listeners, << >>).listeners
            /\ UNCHANGED << pageVars, quotaFull, asyncCalls >>

callEditItem(paths, values) ==
    \E itemPath \in paths, value \in values, createPath \in BOOLEAN :
        \E out \in { editItem(payload, itemPath, value, createPath, quotaFull) } :
            /\ Fits(out.payload)
            /\ payload' = out.payload
            /\ call' = CallRecord("editItem", value, itemPath, createPath, out)
            /\ listeners' = Dispatch(out.events, listeners, << >>).listeners
            /\ UNCHANGED << pageVars, quotaFull, asyncCalls >>

callDeleteItem(paths) ==
    \E itemPath \in paths :
        \E out \in { deleteItem(payload, itemPath, quotaFull) } :
            /\ payload' = out.payload
            /\ call' = CallRecord("deleteItem", JSUndefined, itemPath, FALSE, out)
            /\ listeners' = Dispatch(out.events, listeners, << >>).listeners
            /\ UNCHANGED << pageVars, quotaFull, asyncCalls >>

\* the path of the history holds the updater, the value the default
callUpdate(updaters, defaults) ==
    \E updater \in updaters, defaultValue \in defaults :
        \E out \in { update(payload, updater, defaultValue, quotaFull) } :
            /\ Fits(out.payload)
            /\ payload' = out.payload
            /\ call' = CallRecord("update", defaultValue, updater, FALSE, out)
            /\ listeners' = Dispatch(out.events, listeners, << >>).listeners
            /\ UNCHANGED << pageVars, quotaFull, asyncCalls >>

callMerge(values) ==
    \E newData \in values, deep \in BOOLEAN :
        \E out \in { merge(payload, newData, deep, quotaFull) } :
            /\ Fits(out.payload)
            /\ payload' = out.payload
            /\ call' = CallRecord("merge", newData, "", deep, out)
            /\ listeners' = Dispatch(out.events, listeners, << >>).listeners
            /\ UNCHANGED << pageVars, quotaFull, asyncCalls >>

\* another script of the page writes a text under the key of the namespace
foreignWrite(texts) ==
    \E text \in texts :
        /\ payload' = JSStr(text)
        /\ call' = CallRecord("foreignWrite", JSStr(text), "", FALSE,
                              Resolved(JSUndefined, JSStr(text)))
        /\ UNCHANGED << pageVars, quotaFull, listeners, asyncCalls >>

ObjAB == JSObject(<< Prop("a", JSNum(1)), Prop("b", JSNum(2)) >>)
ObjBA == JSObject(<< Prop("b", JSNum(2)), Prop("a", JSNum(1)) >>)
Nested ==
    JSObject(<< Prop("a", JSObject(<< Prop("x", JSArr(<< >>)) >>)),
                Prop("b", JSArr(<< JSNull, JSObject(<< >>) >>)) >>)

\* the values set is called with: JSON values, and values JSON has no text
\* for
StoreValues ==
    { JSNull, JSBool(TRUE), JSBool(FALSE), JSNum(0), JSNum(-12), JSStr(""),
      JSStr("a\"\\,"), JSArr(<< >>), JSObject(<< >>),
      JSArr(<< JSNum(1), JSArr(<< JSStr("]") >>) >>), ObjAB, Nested,
      JSUndefined, JSNaN, JSFunction, JSCircular }

Defaults == { JSUndefined, JSNull, JSArr(<< >>) }
AddValues == { JSNull, ObjAB, ObjBA, JSCircular }
ForeignTexts == { "", "{" }

NextStore ==
    \/ callSet(StoreValues)
    \/ callGet(Defaults)
    \/ callClear
    \/ callAdd(AddValues)
    \/ foreignWrite(ForeignTexts)
    \/ QuotaChange

SpecStore == Init /\ [][NextStore]_vars

\* the values, paths and updaters the calls are made with where their
\* failures are explored
SeedValues ==
    { JSObject(<< Prop("a", JSArr(<< >>)) >>), JSArr(<< >>), JSUndefined,
      JSCircular }
PushValues == { ObjAB, JSCircular }
SeedPaths == { "a", "b.x" }
MergeSeeds == { JSObject(<< Prop("b", JSNum(1)) >>), JSCircular, JSNull }

NextFailures ==
    \/ callSet(SeedValues)
    \/ callAdd(PushValues)
    \/ callAppendItem(SeedPaths, PushValues)
    \/ callEditItem(SeedPaths, PushValues)
    \/ callDeleteItem(SeedPaths)
    \/ callUpdate(Updaters, {JSUndefined})
    \/ callMerge(MergeSeeds)
    \/ QuotaChange

SpecFailures == Init /\ [][NextFailures]_vars

\* the data, the paths and the values of the calls that edit and delete by
\* path
PathSeeds ==
    { JSObject(<< Prop("a", JSObject(<< Prop("x", JSNum(1)) >>)) >>),
      JSObject(<< Prop("a", JSArr(<< JSNum(1) >>)) >>),
      JSNum(0) }
Paths == { "a", "a.x", "b.x", "a.0" }
EditValues == { JSNum(2) }

NextPaths ==
    \/ callSet(PathSeeds)
    \/ callClear
    \/ callEditItem(Paths, EditValues)
    \/ callDeleteItem(Paths)
    \/ QuotaChange

SpecPaths == Init /\ [][NextPaths]_vars

\* the arrays stored and the paths deleted from them: the indexes of the
\* elements, an index past the end, a negative one, one written with a
\* leading zero, and keys that are no numbers
ArraySeeds ==
    { JSObject(<< Prop("a", JSArr(<< JSNum(1), JSNum(2), JSNum(3) >>)) >>),
      JSArr(<< JSStr("x"), JSStr("y") >>) }
ArrayPaths == { "a.0", "a.1", "a.3", "a.-1", "a.01", "a.x", "a.length", "1" }

NextArrays ==
    \/ callSet(ArraySeeds)
    \/ callDeleteItem(ArrayPaths)
    \/ QuotaChange

SpecArrays == Init /\ [][NextArrays]_vars

\* the data stored and the data merged into them by the calls of merge
MergeStored ==
    { JSObject(<< Prop("a", JSNum(0)), Prop("b", JSNum(2)) >>),
      JSObject(<< Prop("a", JSObject(<< Prop("y", JSNum(2)) >>)) >>),
      JSNull, JSArr(<< JSNum(1) >>), JSNum(1) }
MergeData ==
    { JSObject(<< Prop("a", JSNum(1)) >>),
      JSObject(<< Prop("a", JSObject(<< Prop("x", JSNum(1)) >>)) >>),
      JSObject(<< Prop("a", JSArr(<< >>)), Prop("c", JSObject(<< >>)) >>),
      JSNull, JSArr(<< >>), JSNum(1), JSStr("a") }

NextMerge ==
    \/ callSet(MergeStored)
    \/ callClear
    \/ callMerge(MergeData)
    \/ QuotaChange

SpecMerge == Init /\ [][NextMerge]_vars


(***************************************************************************)
(* Construction of a DataStore, in a page where localStorage is available. *)
(***************************************************************************)
\* the longest namespace the constructor accepts
MaxNamespace == 255

\* the characters of /^[a-zA-Z0-9._-]+$/
NamespaceChars ==
    "abcdefghijklmnopqrstuvwxyzABCDEFGHIJKLMNOPQRSTUVWXYZ0123456789._-"

\* /^[a-zA-Z0-9._-]+$/.test(s)
TestNamespace(s) ==
    /\ s # ""
    /\ \A n \in 1..Len(s) :
          \E i \in 1..Len(NamespaceChars) :
              SubSeq(NamespaceChars, i, i) = SubSeq(s, n, n)

\* a variant of _validateNamespace that refuses the longest namespace
validateNamespaceShort(namespace) ==
    IF namespace.t # "string" THEN "TypeError: Namespace must be a string"
    ELSE IF Trim(namespace.s) = "" THEN "Namespace cannot be empty"
    ELSE IF Len(namespace.s) >= MaxNamespace
    THEN "Namespace cannot exceed 255 characters"
    ELSE IF ~TestNamespace(namespace.s)
    THEN "Namespace contains invalid characters"
    ELSE ""

\* _validateNamespace(namespace): the message of the error thrown, or ""
validateNamespace(namespace) ==
    IF namespace.t # "string" THEN "TypeError: Namespace must be a string"
    ELSE IF Trim(namespace.s) = "" THEN "Namespace cannot be empty"
    ELSE IF Len(namespace.s) > MaxNamespace
    THEN "Namespace cannot exceed 255 characters"
    ELSE IF ~TestNamespace(namespace.s)
    THEN "Namespace contains invalid characters"
    ELSE ""

\* new DataStore(namespace): the fields of the instance, or the error
constructor(p, namespace) ==
    With(validateNamespace(namespace), LAMBDA error :
        IF error # "" THEN Rejected(error, p)
        ELSE Resolved(JSObject(<< Prop("namespace", namespace),
                                  Prop("type", JSStr("local")),
                                  Prop("storageType", JSStr("web")) >>), p))

\* the instance is constructed once, before any call on it
newDataStore(namespaces) ==
    /\ call = NoCall
    /\ \E namespace \in namespaces :
          \E out \in { constructor(payload, namespace) } :
              /\ call' = CallRecord("constructor", namespace, "", FALSE, out)
              /\ UNCHANGED << pageVars, quotaFull, payload, listeners,
                              asyncCalls >>

\* the strings of at most n characters of the sequence chars
RECURSIVE StringsUpTo(_, _)
StringsUpTo(chars, n) ==
    IF n = 0 THEN { "" }
    ELSE With(StringsUpTo(chars, n - 1), LAMBDA shorter :
            shorter \cup { s \o chars[i] : s \in shorter, i \in 1..Len(chars) })

\* the string of n characters c
RECURSIVE Repeat(_, _)
Repeat(c, n) ==
    IF n = 0 THEN ""
    ELSE With(Repeat(c, n \div 2), LAMBDA half :
            half \o half \o (IF n % 2 = 1 THEN c ELSE ""))

\* the namespaces tried: every short string over a few characters, strings
\* around the longest one accepted, and values that are no strings
MaxShortNamespace == 3
ShortChars == << "a", "Z", "0", ".", "_", "-", " ", "/" >>
Namespaces ==
    { JSStr(s) : s \in StringsUpTo(ShortChars, MaxShortNamespace) }
    \cup { JSStr(Repeat("a", n)) :
              n \in (MaxNamespace - 1)..(MaxNamespace + 1) }
    \cup { JSStr(Repeat("a", MaxNamespace - 1) \o "/"),
           JSStr(Repeat("a", MaxNamespace) \o "/") }
    \cup { JSUndefined, JSNull, JSNum(1), JSArr(<< >>), JSObject(<< >>) }

NextConstruct ==
    \/ newDataStore(Namespaces)
    \/ QuotaChange

SpecConstruct == Init /\ [][NextConstruct]_vars

(***************************************************************************)
(* Listeners of the DataStore used on its own.                             *)
(***************************************************************************)
\* the instance holds at most MaxListeners callbacks
MaxListeners == 2

RECURSIVE SumLen(_, _)
SumLen(ls, kinds) ==
    IF kinds = {} THEN 0
    ELSE With(CHOOSE type \in kinds : TRUE, LAMBDA type :
            Len(ls[type]) + SumLen(ls, kinds \ {type}))

\* addEventListener(type, callback); a callback of "null" is no function
addEventListener(types, callbacks) ==
    \E type \in types, callback \in callbacks \cup {"null"} :
        /\ SumLen(listeners, EventKinds) < MaxListeners
        /\ listeners' = IF callback = "null" THEN listeners
                        ELSE [listeners EXCEPT ![type] = Append(@, callback)]
        /\ call' = CallRecord("addEventListener", JSStr(callback), type, FALSE,
                              IF callback = "null"
                              THEN Rejected("TypeError: Callback must be a function",
                                            payload)
                              ELSE Resolved(JSUndefined, payload))
        /\ UNCHANGED << pageVars, quotaFull, payload, asyncCalls >>

\* removeEventListener(type, callback)
removeEventListener(types, callbacks) ==
    \E type \in types, callback \in callbacks :
        /\ listeners' = [listeners EXCEPT ![type] = RemoveFirst(@, callback)]
        /\ call' = CallRecord("removeEventListener", JSStr(callback), type,
                              FALSE, Resolved(JSUndefined, payload))
        /\ UNCHANGED << pageVars, quotaFull, payload, asyncCalls >>

\* the calls made while callbacks listen
ListenedKinds == { "set", "edit" }
EventSeeds == { JSObject(<< Prop("a", JSArr(<< >>)) >>), JSUndefined }
EventValues == { JSStr("0123456789") }
EventPaths == { "a" }
EventMerges == { JSObject(<< Prop("a", JSArr(<< >>)) >>) }

NextEvents ==
    \/ addEventListener(ListenedKinds, Callbacks)
    \/ removeEventListener(ListenedKinds, Callbacks)
    \/ callSet(EventSeeds)
    \/ callClear
    \/ callAdd(EventValues)
    \/ callAppendItem(EventPaths, EventValues)
    \/ callEditItem(EventPaths, EventValues)
    \/ callDeleteItem(EventPaths)
    \/ callUpdate({"same", "throw"}, {JSUndefined})
    \/ callMerge(EventMerges)
    \/ QuotaChange

SpecEvents == Init /\ [][NextEvents]_vars

(***************************************************************************)
(* Edits of the Catalog while Items are on the shopping list.              *)
(***************************************************************************)
\* the submit event of the edit form, dispatched while the id field of the
\* form holds any of the ids
editFormSubmit(ids, forms) ==
    /\ phase = "ready"
    /\ \E itemId \in ids : \E form \in forms : handleEditItem(itemId, form)

\* an id no Item has
StaleIds == { "item-9" }

\* the form the Items are edited with
EditForms == { Form("A", "", "-1") }

\* a click on a tab while fewer than MaxTimers renders are pending
editTabClick ==
    /\ phase = "ready"
    /\ timers.manage + timers.shopping < MaxTimers
    /\ (manageTabClick \/ shoppingTabClick)

NextEdit ==
    \/ Startup
    \/ createSubmit(ListedForms, MaxItems)
    \/ editSubmit(EditForms)
    \/ editFormSubmit(StaleIds, EditForms)
    \/ manageItemCellClick
    \/ shoppingSwitchClick
    \/ editTabClick
    \/ shoppingRenderTimer
    \/ manageRenderTimer
    \/ Tick

SpecEdit == Init /\ [][NextEdit]_vars

(***************************************************************************)
(* Calls that are not awaited.  An async method runs when it is called, up *)
(* to its first await; what follows the await is a microtask, and the      *)
(* microtasks run first in, first out once the code that made the calls    *)
(* has returned.  For the backend of a page get and set have no await:     *)
(* they read and write when they are called.  asyncCalls holds the calls   *)
(* in the order they were made, the microtasks queued, the calls that      *)
(* wrote, in the order of the writes, and task, which tells that the code  *)
(* making calls has not returned yet.                                      *)
(***************************************************************************)
MaxCalls == 3

\* a call made: its arguments, the number of microtasks that waited when
\* it was made, the state of its promise and, once it is settled, what it
\* resolved with
AsyncCall(op, value, flag, state, ret) ==
    [op |-> op, value |-> value, flag |-> flag, state |-> state, ret |-> ret,
     waiting |-> Len(asyncCalls.queue)]

\* the promise a settled method returns
Settled(out) == IF out.ok THEN "fulfilled" ELSE "rejected"

\* code may make a call when no microtask is left or while it is running
MayCall ==
    /\ Len(asyncCalls.calls) < MaxCalls
    /\ asyncCalls.task \/ asyncCalls.queue = << >>

\* store.set(value), not awaited
startSet(values) ==
    /\ MayCall
    /\ \E value \in values :
          \E out \in { set(payload, value, quotaFull) } :
              /\ Fits(out.payload)
              /\ payload' = out.payload
              /\ listeners' = Dispatch(out.events, listeners, << >>).listeners
              /\ asyncCalls' =
                    [asyncCalls EXCEPT
                        !.calls = Append(@, AsyncCall("set", value, FALSE,
                                                      Settled(out), out.ret)),
                        !.writes = IF out.ok
                                   THEN Append(@, Len(asyncCalls.calls) + 1)
                                   ELSE @,
                        !.task = TRUE]
              /\ UNCHANGED << pageVars, quotaFull, call >>

\* store.add(value, allowDuplicates), not awaited: the data are read and the
\* rest waits for the microtask of await this.get([])
startAdd(values) ==
    /\ MayCall
    /\ \E value \in values, allowDuplicates \in BOOLEAN :
          /\ asyncCalls' =
                IF value.t \in {"undefined", "null"}
                THEN [asyncCalls EXCEPT
                        !.calls = Append(@, AsyncCall("add", value,
                                                      allowDuplicates,
                                                      "rejected", JSUndefined)),
                        !.task = TRUE]
                ELSE [asyncCalls EXCEPT
                        !.calls = Append(@, AsyncCall("add", value,
                                                      allowDuplicates,
                                                      "pending", JSUndefined)),
                        !.queue = Append(@,
                            [id |-> Len(asyncCalls.calls) + 1,
                             step |-> "afterGet",
                             data |-> get(payload, JSArr(<< >>))]),
                        !.task = TRUE]
          /\ UNCHANGED << pageVars, quotaFull, payload, call, listeners >>

\* the microtask of an add after await this.get([]): the checks, the push
\* and the call of set, whose promise the add then awaits
addAfterGet(m) ==
    LET c == asyncCalls.calls[m.id]
    IN  IF addRefusal(m.data, c.value, c.flag) # ""
        THEN /\ asyncCalls' =
                    [asyncCalls EXCEPT
                        !.calls[m.id].state = "rejected",
                        !.queue = Tail(@),
                        !.task = FALSE]
             /\ UNCHANGED << payload, listeners >>
        ELSE \E out \in { set(payload, JSArr(Append(m.data.v, c.value)),
                              quotaFull) } :
                /\ Fits(out.payload)
                /\ payload' = out.payload
                /\ listeners' = Dispatch(out.events, listeners, << >>).listeners
                /\ asyncCalls' =
                      [asyncCalls EXCEPT
                          !.queue = Append(Tail(@),
                              [id |-> m.id, step |-> "afterSet",
                               data |-> m.data, saved |-> out]),
                          !.writes = IF out.ok THEN Append(@, m.id) ELSE @,
                          !.task = FALSE]

\* the microtask of an add after await this.set(data): return data.length,
\* or the error of set thrown again
addAfterSet(m) ==
    /\ asyncCalls' =
          [asyncCalls EXCEPT
              !.calls[m.id].state = Settled(m.saved),
              !.calls[m.id].ret = addReturn(m.data, m.saved).ret,
              !.queue = Tail(@),
              !.task = FALSE]
    /\ UNCHANGED << payload, listeners >>

\* the first microtask of the queue runs
runMicrotask ==
    /\ asyncCalls.queue # << >>
    /\ IF Head(asyncCalls.queue).step = "afterGet"
       THEN addAfterGet(Head(asyncCalls.queue))
       ELSE addAfterSet(Head(asyncCalls.queue))
    /\ UNCHANGED << pageVars, quotaFull, call >>

\* the values of the calls that are not awaited
AsyncValues == { JSStr("x"), JSStr("y") }

NextAsync ==
    \/ startSet(AsyncValues)
    \/ startAdd(AsyncValues)
    \/ runMicrotask
    \/ QuotaChange

SpecAsync == Init /\ [][NextAsync]_vars

(***************************************************************************)
(* Every mutation of the page over a backend that accepts every write.     *)
(***************************************************************************)
\* the record imported where every mutation is explored
SavedRecords == { Record([store |-> JSStr("A"), item |-> JSStr("m")]) }

NextSaved ==
    \/ Startup
    \/ Reload
    \/ createSubmit(ListedForms, MaxListed)
    \/ editSubmit(EditForms)
    \/ removeButtonClick
    \/ manageItemCellClick
    \/ shoppingSwitchClick
    \/ clearShoppingClick
    \/ importFile
    \/ importRecord(SavedRecords)
    \/ importDone
    \/ editTabClick
    \/ shoppingRenderTimer
    \/ manageRenderTimer
    \/ Tick

SpecSaved == Init /\ [][NextSaved]_vars

(***************************************************************************)
(* Startup over a backend whose reads may fail.  get rejects when the      *)
(* backend throws (part_000:95-98); init awaits the three loads one after  *)
(* the other, each continuing in a microtask of its own once the read has  *)
(* settled.                                                                *)
(***************************************************************************)
\* loadData when the read of groceries.items fails: loadData has no catch,
\* so init is rejected at its first await and nothing after it runs
loadDataFailed ==
    /\ phase = "loadData"
    /\ phase' = "failed"
    /\ lastOp' = [op |-> "loadData", id |-> "failed", held |-> {}]
    /\ UNCHANGED importRun
    /\ UNCHANGED storeVars
    /\ UNCHANGED << groceryItems, shoppingSet, uncheckedSet, filteredItems,
                    currentTab, isLoading, shoppingRows, manageRows, timers,
                    localStorage, quotaFull, clock, toast >>

\* loadShopping when the read of groceries.shopping fails: the catch logs
\* a warning and init goes on
loadShoppingFailed ==
    /\ phase = "loadShopping"
    /\ phase' = "loadShoppingStatus"
    /\ lastOp' = [op |-> "loadShopping", id |-> "failed", held |-> {}]
    /\ UNCHANGED importRun
    /\ UNCHANGED storeVars
    /\ UNCHANGED << groceryItems, shoppingSet, uncheckedSet, filteredItems,
                    currentTab, isLoading, shoppingRows, manageRows, timers,
                    localStorage, quotaFull, clock, toast >>

\* loadShoppingStatus when the read of groceries.shoppingStatus fails
loadShoppingStatusFailed ==
    /\ phase = "loadShoppingStatus"
    /\ phase' = "initDone"
    /\ lastOp' = [op |-> "loadShoppingStatus", id |-> "failed", held |-> {}]
    /\ UNCHANGED importRun
    /\ UNCHANGED storeVars
    /\ UNCHANGED << groceryItems, shoppingSet, uncheckedSet, filteredItems,
                    currentTab, isLoading, shoppingRows, manageRows, timers,
                    localStorage, quotaFull, clock, toast >>

\* the steps of init, each read succeeding or failing
StartupSteps ==
    \/ Startup
    \/ loadDataFailed
    \/ loadShoppingFailed
    \/ loadShoppingStatusFailed

NextStartup ==
    \/ StartupSteps
    \/ Reload
    \/ createSubmit(ListedForms, MaxListed)
    \/ manageItemCellClick
    \/ shoppingSwitchClick
    \/ editTabClick
    \/ shoppingRenderTimer
    \/ manageRenderTimer
    \/ Tick

\* the event loop runs the microtask a settled read has queued: a step of
\* init that can be taken is taken
SpecStartup == Init /\ [][NextStartup]_vars /\ WF_vars(StartupSteps)

(***************************************************************************)
(* Properties.                                                             *)
(***************************************************************************)
\* the case-insensitive trimmed (store, item) pair of an Item
PairKey(store, item) == << ToLowerCase(Trim(store)), ToLowerCase(Trim(item)) >>

NoDuplicateIds(items) ==
    \A i, j \in 1..Len(items) : i # j => items[i].id # items[j].id

NoDuplicatePairs(items) ==
    \A i, j \in 1..Len(items) :
        i # j => PairKey(items[i].store, items[i].item)
                    # PairKey(items[j].store, items[j].item)

\* C1: no two Items of the Catalog have the same id, after any sequence of
\* create, edit, delete and import
C1_UniqueIds == NoDuplicateIds(groceryItems)

\* C2: the Status Set is a subset of the Selection Set in every state, for
\* every interleaving of the selection events, the tab clicks and the
\* deferred renders
C2_StatusWithinSelection == uncheckedSet \subseteq shoppingSet

\* C3: every id of the Selection Set is the id of an Item of the Catalog, in
\* every state once the Catalog and the selection are loaded
C3_SelectionWithinCatalog ==
    phase \in {"loadShoppingStatus", "initDone", "ready"}
        => shoppingSet \subseteq ItemIds(groceryItems)

\* C4: after removeItem(id) for an id held by the Catalog, the Selection Set
\* and the Status Set, none of the three holds the id
C4_RemoveItemCascades ==
    (lastOp.op = "removeItem" /\ lastOp.held = {"catalog", "shopping", "unchecked"})
        => /\ lastOp.id \notin ItemIds(groceryItems)
           /\ lastOp.id \notin shoppingSet
           /\ lastOp.id \notin uncheckedSet

C4_Witness ==
    /\ lastOp.op = "removeItem"
    /\ lastOp.held = {"catalog", "shopping", "unchecked"}
    /\ lastOp.id = "item-0"
    /\ localStorage[ShoppingStatusNs] = JSArr({})

(***************************************************************************)
(* The import merge, stated in every state of the loop and of every        *)
(* record it may read next.  In the operators below before and after are   *)
(* the locals of the loop around one record.                               *)
(***************************************************************************)
\* the record was pushed to toAdd
Accepted(before, after) == Len(after.toAdd) = Len(before.toAdd) + 1

\* the Item the record was stored as
StoredItem(after) == after.toAdd[Len(after.toAdd)]

\* the record was skipped and counted as a duplicate only
CountedDuplicate(before, after) ==
    /\ after.toAdd = before.toAdd
    /\ after.skippedDuplicates = before.skippedDuplicates + 1
    /\ after.skippedInvalid = before.skippedInvalid

\* the record was skipped and counted as invalid only
CountedInvalid(before, after) ==
    /\ after.toAdd = before.toAdd
    /\ after.skippedInvalid = before.skippedInvalid + 1
    /\ after.skippedDuplicates = before.skippedDuplicates

\* the record was accepted and no skip counter moved
CountedAccepted(before, after) ==
    /\ Accepted(before, after)
    /\ after.skippedInvalid = before.skippedInvalid
    /\ after.skippedDuplicates = before.skippedDuplicates

\* the (store, item) pairs of the Items of a sequence
Pairs(items) == { PairKey(items[i].store, items[i].item) : i \in 1..Len(items) }

\* the pair of a record: its store and item as strings, trimmed, lower case
RecordPair(raw) == PairKey(JSString(RawStore(raw)), JSString(RawName(raw)))

\* the pair of the record is the pair of an Item of the existing Catalog or
\* of a record accepted earlier in the batch
PairKnown(before, raw) ==
    RecordPair(raw) \in Pairs(groceryItems) \cup Pairs(before.toAdd)

\* the ids of the existing Catalog and of the records accepted so far
IdsTaken(before) == ItemIds(groceryItems) \cup ItemIds(before.toAdd)

\* the store or the item of a record is empty or falsy once trimmed
EmptyAfterTrim(raw) ==
    \/ Falsy(RawStore(raw))
    \/ Falsy(RawName(raw))
    \/ Trim(JSString(RawStore(raw))) = ""
    \/ Trim(JSString(RawName(raw))) = ""

\* the locals of the running loop once it has read raw as its next record
AfterRecord(raw) == ImportStep(importRun.st, raw, clock)

\* C5 as stated: for every existing Catalog and every input array the merged
\* Catalog holds no two Items with the same case-insensitive trimmed
\* (store, item) pair and no two Items with the same id
C5_MergedWithoutDuplicates ==
    phase = "importing" =>
        \A raw \in Records :
            LET merged == groceryItems \o AfterRecord(raw).toAdd
            IN  NoDuplicatePairs(merged) /\ NoDuplicateIds(merged)

\* C5 amended: every Item the import merge appends differs in its
\* case-insensitive trimmed (store, item) pair and in its id from every
\* other Item of the merged Catalog
C5_AppendedItemsDistinct ==
    phase = "importing" =>
        \A raw \in Records :
            LET merged == groceryItems \o AfterRecord(raw).toAdd
            IN  \A i \in (Len(groceryItems) + 1)..Len(merged) :
                    \A j \in 1..Len(merged) :
                        i # j =>
                            /\ merged[i].id # merged[j].id
                            /\ PairKey(merged[i].store, merged[i].item)
                                  # PairKey(merged[j].store, merged[j].item)

\* an import appended an Item to a Catalog that held another
C5_Witness ==
    /\ phase = "ready"
    /\ lastOp.op = "handleImportFile"
    /\ toast = Toast("success", "Imported 1 item(s)")
    /\ Len(groceryItems) = 2
    /\ groceryItems[1].id = "item-0"
    /\ groceryItems[2].id = "item-0-0"

\* C6 as stated: a record whose key is the key of an Item of the existing
\* Catalog or of a record accepted earlier in the batch is not added and
\* counts as one duplicate, not as invalid; the first occurrence of a new
\* key is accepted
C6_KeyDecidesDuplicate ==
    phase = "importing" =>
        \A raw \in Records :
            LET after == AfterRecord(raw)
            IN  IF PairKnown(importRun.st, raw)
                THEN CountedDuplicate(importRun.st, after)
                ELSE CountedAccepted(importRun.st, after)

\* C6 amended: a record that passes the validity test (store and item both
\* truthy) and whose key is the key of an Item of the existing Catalog or of
\* a record accepted earlier in the batch is not added and counts as one
\* duplicate, not as invalid; one whose key is new is accepted
C6_ValidKeyDecidesDuplicate ==
    phase = "importing" =>
        \A raw \in Records :
            LET after == AfterRecord(raw)
            IN  ~RecordInvalid(raw) =>
                    IF PairKnown(importRun.st, raw)
                    THEN CountedDuplicate(importRun.st, after)
                    ELSE CountedAccepted(importRun.st, after)

\* an import accepted the first record of a key and skipped the second as a
\* duplicate
C6_Witness ==
    /\ phase = "ready"
    /\ lastOp.op = "handleImportFile"
    /\ toast = Toast("success", "Imported 1 item(s) (1 duplicate(s) skipped)")
    /\ Len(groceryItems) = 1

\* C7: every record whose store or item is empty or falsy once trimmed is
\* skipped and counted as invalid, and no accepted Item has an empty store
\* or an empty item name
C7_EmptyAfterTrimIsInvalid ==
    phase = "importing" =>
        /\ \A raw \in Records :
              EmptyAfterTrim(raw) => CountedInvalid(importRun.st, AfterRecord(raw))
        /\ \A x \in Range(importRun.st.toAdd) : x.store # "" /\ x.item # ""

\* C8 as stated: every accepted record that supplies a non-empty id which
\* is not an id of the existing Catalog is stored with exactly that id
C8_SuppliedIdKept ==
    phase = "importing" =>
        \A raw \in Records :
            LET after == AfterRecord(raw)
            IN  (/\ Accepted(importRun.st, after)
                 /\ RawId(raw) # ""
                 /\ RawId(raw) \notin ItemIds(groceryItems))
                    => StoredItem(after).id = RawId(raw)

\* C8 amended: every accepted record that supplies a non-empty id which is
\* neither an id of the existing Catalog nor the id kept or synthesized for
\* a record accepted earlier in the batch is stored with exactly that id
C8_FreeSuppliedIdKept ==
    phase = "importing" =>
        \A raw \in Records :
            LET after == AfterRecord(raw)
            IN  (/\ Accepted(importRun.st, after)
                 /\ RawId(raw) # ""
                 /\ RawId(raw) \notin IdsTaken(importRun.st))
                    => StoredItem(after).id = RawId(raw)

\* an import stored a record under the id it supplied
C8_Witness ==
    /\ phase = "ready"
    /\ lastOp.op = "handleImportFile"
    /\ \E i \in 1..Len(groceryItems) :
          groceryItems[i] = [id |-> "item-1", store |-> "a", item |-> "M", price |-> 2]

\* C9: every id synthesized for a record, one that supplies no id or an id
\* already taken, differs from every id of the existing Catalog and from
\* every id kept or synthesized for an earlier record of the batch, whatever
\* the clock reads
C9_SynthesizedIdsFresh ==
    phase = "importing" =>
        \A raw \in Records :
            LET after == AfterRecord(raw)
            IN  (/\ Accepted(importRun.st, after)
                 /\ \/ RawId(raw) = ""
                    \/ RawId(raw) \in IdsTaken(importRun.st))
                    => StoredItem(after).id \notin IdsTaken(importRun.st)

\* an import synthesized item-0-1 because item-0-0 was taken
C9_Witness ==
    /\ phase = "ready"
    /\ lastOp.op = "handleImportFile"
    /\ {"item-0-0", "item-0-1"} \subseteq ItemIds(groceryItems)

NonArrayImport ==
    /\ phase = "ready"
    /\ phase' = "ready"
    /\ lastOp'.op = "handleImportFile"
    /\ lastOp' # lastOp \/ importRun' # importRun

\* C11: an import of a parsed value that is not an array ends in a reported
\* failure: the promise of handleImportFile does not reject, the toast
\* "JSON must be an array of items" is shown, and the Catalog and the
\* persisted Items are unchanged
C11_NonArrayReported ==
    [][ NonArrayImport =>
           /\ importRun' # ImportRejected
           /\ toast'.message = "JSON must be an array of items"
           /\ groceryItems' = groceryItems
           /\ localStorage' = localStorage ]_vars

\* C12: the Catalog after an import is the existing Catalog, unchanged and in
\* its order, followed by exactly the accepted Items in the order of the
\* input array: the loop leaves the Catalog alone, an accepted record goes to
\* the end of toAdd as the Item made from it, a skipped record leaves toAdd
\* alone, and the end of the import appends toAdd to the Catalog
C12_ExistingThenAcceptedInOrder ==
    /\ [](phase = "importing" =>
             \A raw \in Records :
                LET st == importRun.st
                    after == AfterRecord(raw)
                IN  IF Accepted(st, after)
                    THEN /\ SubSeq(after.toAdd, 1, Len(st.toAdd)) = st.toAdd
                         /\ StoredItem(after).store = RecordStore(raw)
                         /\ StoredItem(after).item = RecordItem(raw)
                         /\ StoredItem(after).price = ImportPrice(raw)
                    ELSE after.toAdd = st.toAdd)
    /\ [][ phase = "importing" =>
              /\ phase' = "importing" =>
                    /\ groceryItems' = groceryItems
                    /\ importRun' # importRun =>
                          \E raw \in Records : importRun'.st = AfterRecord(raw)
              /\ phase' = "ready" =>
                    groceryItems' = groceryItems \o importRun.st.toAdd ]_vars

\* an import appended one accepted Item to a Catalog of one created Item
C12_Witness ==
    /\ phase = "ready"
    /\ lastOp.op = "handleImportFile"
    /\ toast.type = "success"
    /\ Len(groceryItems) = 2
    /\ groceryItems[1].id = "item-0"

(***************************************************************************)
(* Properties of the DataStore.                                            *)
(***************************************************************************)
\* a value of JSON: null, a boolean, a number, a string, an array or an
\* object of such values
RECURSIVE IsJSONValue(_)
IsJSONValue(value) ==
    CASE value.t \in {"null", "boolean", "number", "string"} -> TRUE
      [] value.t = "array" ->
            \A i \in 1..Len(value.v) : IsJSONValue(value.v[i])
      [] value.t = "object" ->
            \A i \in 1..Len(value.props) : IsJSONValue(value.props[i].v)
      [] OTHER -> FALSE

\* deep equality: the same primitive, arrays equal element by element,
\* objects with the same keys and equal values under them, in any order
RECURSIVE DeepEqual(_, _)
DeepEqual(a, b) ==
    IF a.t # b.t THEN FALSE
    ELSE CASE a.t = "array" ->
                /\ Len(a.v) = Len(b.v)
                /\ \A i \in 1..Len(a.v) : DeepEqual(a.v[i], b.v[i])
           [] a.t = "object" ->
                /\ Len(a.props) = Len(b.props)
                /\ \A i \in 1..Len(a.props) :
                      /\ HasProp(b.props, a.props[i].k)
                      /\ DeepEqual(a.props[i].v, GetProp(b.props, a.props[i].k))
           [] OTHER -> a = b

\* the backend holds nothing under the namespace, or a text that does not
\* parse
Unreadable(p) == p = NoEntry \/ ~JSONParse(p.s).ok

\* C13: after a set(v) that succeeded, for a value v of JSON, get(d) gives
\* a value deep-equal to v whatever the default d
C13_SetThenGetRoundTrip ==
    (call.op = "set" /\ call.ok /\ IsJSONValue(call.value)) =>
        \A d \in Defaults : DeepEqual(get(payload, d), call.value)

\* set has stored an object that nests an object, arrays and null
C13_Witness ==
    /\ call.op = "set"
    /\ call.ok
    /\ call.value = Nested
    /\ payload = JSStr("{\"a\":{\"x\":[]},\"b\":[null,{}]}")

\* C14: get(d) resolves with d, undefined included, whenever the backend
\* holds nothing under the namespace (never written, or cleared) or holds
\* a text that does not parse
C14_GetGivesDefault ==
    /\ call.op = "clear" => call.ok /\ payload = NoEntry
    /\ Unreadable(payload) => \A d \in Defaults : get(payload, d) = d
    /\ (call.op = "get" /\ Unreadable(call.before)) =>
          call.ok /\ call.ret = call.value

\* get(undefined) gave undefined for a text that does not parse
C14_Witness ==
    /\ call.op = "get"
    /\ call.before = JSStr("{")
    /\ call.value = JSUndefined
    /\ call.ok
    /\ call.ret = JSUndefined

\* the array holds an element deep-equal to the value
HoldsDeepEqual(data, value) ==
    \E i \in 1..Len(data.v) : DeepEqual(data.v[i], value)

\* C16: add(value, false) fails and leaves the stored array alone when the
\* array holds an element deep-equal to value; add fails when the stored
\* value is not an array; in every other case (nothing stored, or an array
\* without such an element) add(value, false) succeeds, the stored array is
\* the old one with value appended last and the length returned is the old
\* length plus 1.  The case of success is read with a backend that accepts
\* writes and a value of JSON.
C16_AddFailsOnlyOnDuplicate ==
    (call.op = "add" /\ ~call.flag) =>
        LET old == get(call.before, JSArr(<< >>))
        IN  IF old.t # "array"
            THEN ~call.ok /\ payload = call.before
            ELSE IF HoldsDeepEqual(old, call.value)
            THEN ~call.ok /\ payload = call.before
            ELSE (~call.full /\ IsJSONValue(call.value)) =>
                    /\ call.ok
                    /\ get(payload, JSNull) = JSArr(Append(old.v, call.value))
                    /\ call.ret = JSNum(Len(old.v) + 1)

\* the methods that write
Mutators ==
    { "set", "add", "appendItem", "editItem", "deleteItem", "update", "merge" }

\* C15: set(undefined) and set of a value with a circular reference always
\* fail, and whenever set, add, appendItem, editItem, deleteItem, update or
\* merge fails, for a value that cannot be stored or a backend that rejects
\* the write, the backend holds under the namespace what it held before
C15_FailureKeepsStored ==
    /\ \A value \in {JSUndefined, JSCircular} :
           ~set(payload, value, quotaFull).ok
    /\ (call.op = "set"
          /\ (call.value.t = "undefined" \/ HasCircular(call.value)))
             => ~call.ok
    /\ (call.op \in Mutators /\ ~call.ok) => payload = call.before

\* editItem was rejected by the backend and the stored text is as before
C15_Witness ==
    /\ call.op = "editItem"
    /\ ~call.ok
    /\ call.full
    /\ call.error = "Failed to set data: Storage quota exceeded"
    /\ call.before # NoEntry
    /\ payload = call.before

\* the path leads to a value of the data: each segment is a key of the
\* object, or an index of the array, the segments before it lead to
RECURSIVE Exists(_, _)
Exists(data, segs) ==
    \/ Len(segs) = 0
    \/ /\ Indexable(data)
       /\ In(data, Head(segs))
       /\ Exists(ReadProp(data, Head(segs)), Tail(segs))

\* the path q is not the path, is not below it and does not lead to it
Beside(q, path) ==
    /\ q # path
    /\ ~StartsWith(q, path \o ".")
    /\ ~StartsWith(path, q \o ".")

\* the paths beside the path lead to the same values in both data
OthersUnchanged(before, after, path) ==
    \A q \in Paths :
        Beside(q, path) =>
            /\ Exists(before, SplitPath(q, "")) = Exists(after, SplitPath(q, ""))
            /\ Exists(before, SplitPath(q, "")) =>
                  DeepEqual(ValueAt(before, SplitPath(q, "")),
                            ValueAt(after, SplitPath(q, "")))

\* C17: deleteItem(path), the backend accepting writes, returns false and
\* leaves the stored data as it was when the path does not exist in it (its
\* last key or a segment before it is missing), and on an existing path it
\* returns true, after which the path is absent and every other key is
\* unchanged
C17_DeleteItemByPath ==
    (call.op = "deleteItem" /\ ~call.full) =>
        LET before == get(call.before, JSUndefined)
            after == get(payload, JSUndefined)
            segs == SplitPath(call.path, "")
        IN  IF Exists(before, segs)
            THEN /\ call.ok
                 /\ call.ret = JSBool(TRUE)
                 /\ ~Exists(after, segs)
                 /\ OthersUnchanged(before, after, call.path)
            ELSE /\ call.ok
                 /\ call.ret = JSBool(FALSE)
                 /\ payload = call.before

\* nothing on the way to the last segment of the path is a value without
\* keys: each segment before the last is missing or leads to an object or
\* an array
RECURSIVE Walkable(_, _)
Walkable(data, segs) ==
    \/ Len(segs) = 0
    \/ /\ Indexable(data)
       /\ (Len(segs) > 1 /\ In(data, Head(segs))) =>
              Walkable(ReadProp(data, Head(segs)), Tail(segs))

\* the segments before the last that are missing in before are empty
\* objects but for the next segment in after
CreatedEmpty(before, after, segs) ==
    \A n \in 1..(Len(segs) - 1) :
        ~Exists(before, SubSeq(segs, 1, n)) =>
            /\ Exists(after, SubSeq(segs, 1, n))
            /\ ValueAt(after, SubSeq(segs, 1, n)).t = "object"
            /\ \A i \in 1..Len(ValueAt(after, SubSeq(segs, 1, n)).props) :
                  ValueAt(after, SubSeq(segs, 1, n)).props[i].k = segs[n + 1]

\* C18: editItem(path, value, createPath), the backend accepting writes and
\* no value without keys on the way: with createPath it succeeds, also when
\* nothing is stored, the missing segments before the last are created as
\* empty objects and the last holds the value; without createPath a path
\* with a missing segment fails and the stored data is as it was; after a
\* success the path leads to the value and the paths beside it lead to what
\* they led to
C18_EditItemByPath ==
    (call.op = "editItem" /\ ~call.full) =>
        LET before == get(call.before, JSUndefined)
            after == get(payload, JSUndefined)
            segs == SplitPath(call.path, "")
        IN  (Falsy(before) \/ Walkable(before, segs)) =>
            /\ call.flag => call.ok /\ CreatedEmpty(before, after, segs)
            /\ (~call.flag /\ ~Exists(before, segs)) =>
                  ~call.ok /\ payload = call.before
            /\ (~call.flag /\ Exists(before, segs)) => call.ok
            /\ call.ok =>
                  /\ Exists(after, segs)
                  /\ DeepEqual(ValueAt(after, segs), call.value)
                  /\ OthersUnchanged(before, after, call.path)

\* the keys of an object
Keys(props) == { props[i].k : i \in 1..Len(props) }

\* result has the keys of stored and of new, the values of new under the
\* keys of new and the values of stored under the others
ShallowMerged(stored, new, result) ==
    /\ result.t = "object"
    /\ Keys(result.props) = Keys(stored.props) \cup Keys(new.props)
    /\ \A k \in Keys(new.props) :
          DeepEqual(GetProp(result.props, k), GetProp(new.props, k))
    /\ \A k \in Keys(stored.props) \ Keys(new.props) :
          DeepEqual(GetProp(result.props, k), GetProp(stored.props, k))

\* the same, but under a key that holds a plain object on both sides the
\* result holds the two merged in this way
RECURSIVE DeepMerged(_, _, _)
DeepMerged(stored, new, result) ==
    /\ result.t = "object"
    /\ Keys(result.props) = Keys(stored.props) \cup Keys(new.props)
    /\ \A k \in Keys(new.props) :
          IF /\ HasProp(stored.props, k)
             /\ GetProp(stored.props, k).t = "object"
             /\ GetProp(new.props, k).t = "object"
          THEN DeepMerged(GetProp(stored.props, k), GetProp(new.props, k),
                          GetProp(result.props, k))
          ELSE DeepEqual(GetProp(result.props, k), GetProp(new.props, k))
    /\ \A k \in Keys(stored.props) \ Keys(new.props) :
          DeepEqual(GetProp(result.props, k), GetProp(stored.props, k))

\* C19: merge(newData, deep) of a plain object into a stored object, the
\* backend accepting writes, succeeds; shallow, the result has newData's
\* value under each top-level key of newData and the stored value under
\* every other key; deep, plain objects on both sides are merged
\* recursively and arrays and primitives are replaced by newData's value;
\* the result is returned and stored, and the same merge once more leaves
\* the stored value as it is
C19_MergeIntoStoredObject ==
    ( /\ call.op = "merge"
      /\ ~call.full
      /\ call.value.t = "object"
      /\ get(call.before, JSUndefined).t = "object" ) =>
        /\ call.ok
        /\ IF call.flag
           THEN DeepMerged(get(call.before, JSUndefined), call.value, call.ret)
           ELSE ShallowMerged(get(call.before, JSUndefined), call.value,
                              call.ret)
        /\ DeepEqual(get(payload, JSUndefined), call.ret)
        /\ merge(payload, call.value, call.flag, FALSE).ok
        /\ DeepEqual(get(merge(payload, call.value, call.flag, FALSE).payload,
                         JSUndefined),
                     get(payload, JSUndefined))

\* the deep merge of {a:{x:1}} into the stored {a:{y:2}} has stored an
\* object with both x and y under a
C19_Witness ==
    /\ call.op = "merge"
    /\ call.ok
    /\ call.flag
    /\ call.before = JSStr("{\"a\":{\"y\":2}}")
    /\ call.value = JSObject(<< Prop("a", JSObject(<< Prop("x", JSNum(1)) >>)) >>)
    /\ DeepEqual(get(payload, JSUndefined),
                 JSObject(<< Prop("a", JSObject(<< Prop("x", JSNum(1)),
                                                    Prop("y", JSNum(2)) >>)) >>))

\* C20: merge fails and the stored text is as before when newData is not a
\* plain object (null, an array, a primitive) or when the value stored is
\* not an object (an array, a primitive, null)
C20_MergeRejectsNonObjects ==
    ( /\ call.op = "merge"
      /\ \/ call.value.t # "object"
         \/ /\ ~Unreadable(call.before)
            /\ get(call.before, JSUndefined).t # "object" ) =>
        ~call.ok /\ payload = call.before

\* the characters a namespace may hold
AllowedNamespaceChars ==
    { "a", "b", "c", "d", "e", "f", "g", "h", "i", "j", "k", "l", "m", "n",
      "o", "p", "q", "r", "s", "t", "u", "v", "w", "x", "y", "z",
      "A", "B", "C", "D", "E", "F", "G", "H", "I", "J", "K", "L", "M", "N",
      "O", "P", "Q", "R", "S", "T", "U", "V", "W", "X", "Y", "Z",
      "0", "1", "2", "3", "4", "5", "6", "7", "8", "9", ".", "_", "-" }

\* a string of 1 to 255 of these characters
ValidNamespace(namespace) ==
    /\ namespace.t = "string"
    /\ Len(namespace.s) \in 1..255
    /\ \A i \in 1..Len(namespace.s) :
          SubSeq(namespace.s, i, i) \in AllowedNamespaceChars

\* C21: the construction of a DataStore succeeds for a namespace that is a
\* string of 1 to 255 characters of [A-Za-z0-9._-] and fails with a
\* validation error for every other namespace
C21_NamespaceValidation ==
    call.op = "constructor" =>
        /\ call.ok = ValidNamespace(call.value)
        /\ call.ok => GetProp(call.ret.props, "namespace") = call.value
        /\ ~call.ok => call.error # ""

\* a DataStore was constructed for a namespace of 255 characters
C21_Witness ==
    /\ call.op = "constructor"
    /\ call.ok
    /\ Len(call.value.s) = 255

\* the operations that change the stored value
Mutations ==
    { "set", "clear", "add", "appendItem", "editItem", "deleteItem",
      "update", "merge" }

\* the callbacks the deliveries of a kind went to, in order
CalledFor(delivered, type) ==
    [ i \in 1..Len(SelectSeq(delivered,
                             LAMBDA d : d.type = type /\ d.to # "window")) |->
        SelectSeq(delivered,
                  LAMBDA d : d.type = type /\ d.to # "window")[i].to ]

\* C22: a mutating operation that succeeds delivers a change event with the
\* namespace of the store to the event bus of the window and to every
\* listener registered for the kind of the event, each delivery is made
\* when the backend holds the new value, and an operation that fails
\* delivers nothing
C22_ChangeEventsDelivered ==
    call.op \in Mutations =>
        /\ (call.ok /\ ~(call.op = "deleteItem" /\ call.ret = JSBool(FALSE))) =>
              /\ \E i \in 1..Len(call.delivered) :
                    call.delivered[i].to = "window"
              /\ \A i \in 1..Len(call.delivered) :
                    /\ call.delivered[i].namespace = StoreNs
                    /\ call.delivered[i].stored = payload
                    /\ CalledFor(call.delivered, call.delivered[i].type)
                          = call.registered[call.delivered[i].type]
        /\ ~call.ok => call.delivered = << >>

(***************************************************************************)
(* Further properties of the page.                                         *)
(***************************************************************************)
\* C23: every Item of the Catalog has a price of at least 0, whatever price
\* text a form is submitted with and whatever price an imported record
\* carries
C23_PricesNonNegative ==
    \A i \in 1..Len(groceryItems) : groceryItems[i].price >= 0

\* C24: an edit changes the Item in place: the Catalog keeps its length and
\* its order, the edited Item keeps its id and its position, every other
\* Item, the Selection Set and the Status Set are unchanged, and an edit
\* for an id no Item has changes nothing
C24_EditInPlace ==
    [][ (lastOp'.op = "handleEditItem" /\ lastOp' # lastOp) =>
          /\ Len(groceryItems') = Len(groceryItems)
          /\ \A i \in 1..Len(groceryItems) :
                /\ groceryItems'[i].id = groceryItems[i].id
                /\ i # FindIndex(groceryItems, lastOp'.id) =>
                      groceryItems'[i] = groceryItems[i]
          /\ shoppingSet' = shoppingSet
          /\ uncheckedSet' = uncheckedSet
          /\ FindIndex(groceryItems, lastOp'.id) = 0 =>
                UNCHANGED << groceryItems, filteredItems, localStorage,
                             shoppingRows, manageRows, toast >> ]_vars

\* the second of two Items was edited while it was on the shopping list and
\* struck through
C24_Witness ==
    /\ lastOp.op = "handleEditItem"
    /\ Len(groceryItems) = 2
    /\ groceryItems[2].id = lastOp.id
    /\ groceryItems[1].id # lastOp.id
    /\ groceryItems[2].item = ""
    /\ groceryItems[1].item = "m"
    /\ lastOp.id \in shoppingSet
    /\ lastOp.id \in uncheckedSet

\* the elements are those of before without the one at the index, the later
\* ones one place down
ShiftedDown(before, after, index) ==
    /\ Len(after) = Len(before) - 1
    /\ \A i \in 1..Len(after) :
          DeepEqual(after[i], IF i <= index THEN before[i] ELSE before[i + 1])

\* C25: deleteItem(path), the backend accepting writes and the segments
\* before the last leading to an array: when the last segment is a number
\* that is an index of the array, the element at that index is removed and
\* the later elements move down by one; when it is a number out of bounds
\* (negative, or the length or more) or is no number, the call fails and the
\* stored data is as it was
C25_DeleteFromArray ==
    (call.op = "deleteItem" /\ ~call.full) =>
        LET before == get(call.before, JSUndefined)
            after == get(payload, JSUndefined)
            segs == SplitPath(call.path, "")
            at == SubSeq(segs, 1, Len(segs) - 1)
            index == JSNumber(JSStr(segs[Len(segs)]))
        IN  (Exists(before, at) /\ ValueAt(before, at).t = "array") =>
                IF /\ index.t = "number"
                   /\ index.n >= 0
                   /\ index.n < Len(ValueAt(before, at).v)
                THEN /\ call.ok
                     /\ Exists(after, at)
                     /\ ValueAt(after, at).t = "array"
                     /\ ShiftedDown(ValueAt(before, at).v, ValueAt(after, at).v,
                                    index.n)
                ELSE /\ ~call.ok
                     /\ payload = call.before

(***************************************************************************)
(* Further properties of the store.                                        *)
(***************************************************************************)
\* the deliveries made to the event bus of the window, in order
Broadcast(delivered) == SelectSeq(delivered, LAMBDA d : d.to = "window")

\* the data of the edit event of the call: the path, the value the path led
\* to in the data read (undefined when it led to none) and the new value
EditData(before, path, value) ==
    JSObject(<< Prop("path", JSStr(path)),
                Prop("oldValue",
                     IF Exists(before, SplitPath(path, ""))
                     THEN ValueAt(before, SplitPath(path, ""))
                     ELSE JSUndefined),
                Prop("newValue", value) >>)

\* the delivery is the edit event of the call, made when the backend holds
\* the text written
EditDelivery(d) ==
    /\ d.type = "edit"
    /\ d.namespace = StoreNs
    /\ d.stored = payload
    /\ d.data = EditData(get(call.before, JSUndefined), call.path, call.value)

\* C26 as stated: a successful editItem emits one change notification of
\* kind edit with the path, the value that was at the path and the new
\* value, after the write is persisted, and this is the notification
\* editItem produces: nothing of another kind is delivered by the call
C26_EditNotificationOnly ==
    (call.op = "editItem" /\ call.ok) =>
        /\ \E i \in 1..Len(call.delivered) :
              call.delivered[i].to = "window" /\ EditDelivery(call.delivered[i])
        /\ \A i \in 1..Len(call.delivered) : EditDelivery(call.delivered[i])

\* C26: a successful editItem emits two change notifications, both after
\* the write is persisted: first one of kind set, produced by the set that
\* writes, then one of kind edit with the path, the value that was at the
\* path and the new value; the first listener registered for edit is called
\* with the latter
C26_EditNotification ==
    (call.op = "editItem" /\ call.ok) =>
        /\ Len(Broadcast(call.delivered)) = 2
        /\ Broadcast(call.delivered)[1].type = "set"
        /\ Broadcast(call.delivered)[1].stored = payload
        /\ EditDelivery(Broadcast(call.delivered)[2])
        /\ \A i \in 1..Len(call.delivered) :
              call.delivered[i].type = "edit" =>
                  EditDelivery(call.delivered[i])
        /\ call.registered["edit"] # << >> =>
              \E i \in 1..Len(call.delivered) :
                  /\ call.delivered[i].to = call.registered["edit"][1]
                  /\ call.delivered[i].type = "edit"

\* an editItem replaced the array under a and a listener of the kind edit
\* was called with the old array and the new value
C26_Witness ==
    /\ call.op = "editItem"
    /\ call.ok
    /\ call.registered["edit"] # << >>
    /\ \E i \in 1..Len(call.delivered) :
          /\ call.delivered[i].to = "plain"
          /\ EditDelivery(call.delivered[i])
          /\ GetProp(call.delivered[i].data.props, "oldValue").t = "array"

\* the calls made are calls of set
OnlySets ==
    \A i \in 1..Len(asyncCalls.calls) : asyncCalls.calls[i].op = "set"

\* C27: set calls made one after the other without awaiting write in the
\* order they were made, and once all have completed, each accepted by the
\* backend, the value persisted is the value of the last call
C27_SetsInInitiationOrder ==
    (asyncCalls.calls # << >> /\ OnlySets) =>
        /\ \A i, j \in 1..Len(asyncCalls.writes) :
              i < j => asyncCalls.writes[i] < asyncCalls.writes[j]
        /\ asyncCalls.writes # << >> =>
              DeepEqual(get(payload, JSUndefined),
                        asyncCalls.calls[
                            asyncCalls.writes[Len(asyncCalls.writes)]].value)
        /\ (\A i \in 1..Len(asyncCalls.calls) :
                asyncCalls.calls[i].state = "fulfilled") =>
              /\ Len(asyncCalls.writes) = Len(asyncCalls.calls)
              /\ DeepEqual(get(payload, JSUndefined),
                           asyncCalls.calls[Len(asyncCalls.calls)].value)

\* three calls of set were made in a row, each with another value than the
\* call before, and the backend accepted each
C27_Witness ==
    /\ Len(asyncCalls.calls) = 3
    /\ OnlySets
    /\ \A i \in 1..3 : asyncCalls.calls[i].state = "fulfilled"
    /\ asyncCalls.calls[1].value = JSStr("x")
    /\ asyncCalls.calls[2].value = JSStr("y")
    /\ asyncCalls.calls[3].value = JSStr("x")
    /\ asyncCalls.task

\* C29: when add(a) and add(b) are made one right after the other, the
\* second while the first has not completed, then after both have completed
\* the stored array holds a and b and the two lengths returned differ
C29_AddsLoseNothing ==
    LET n == Len(asyncCalls.calls)
    IN  ( /\ n >= 2
          /\ asyncCalls.queue = << >>
          /\ \A i \in {n - 1, n} :
                /\ asyncCalls.calls[i].op = "add"
                /\ asyncCalls.calls[i].state = "fulfilled"
          /\ asyncCalls.calls[n].waiting > 0 ) =>
            /\ get(payload, JSUndefined).t = "array"
            /\ \A i \in {n - 1, n} :
                  \E k \in 1..Len(get(payload, JSUndefined).v) :
                      DeepEqual(get(payload, JSUndefined).v[k],
                                asyncCalls.calls[i].value)
            /\ asyncCalls.calls[n - 1].ret # asyncCalls.calls[n].ret

\* the methods of the page that change the Catalog, the Selection Set or the
\* Status Set
UIMutations ==
    { "handleCreateItem", "handleEditItem", "removeItem", "handleImportFile",
      "addToShopping", "removeFromShopping", "toggleItem", "clearShoppingList" }

\* C28: over a backend that accepts every write, after each mutation of the
\* page (create, edit, delete, import, addToShopping, removeFromShopping,
\* toggleItem, clearShoppingList) the values persisted under
\* groceries.items, groceries.shopping and groceries.shoppingStatus are the
\* Catalog, the Selection Set and the Status Set in memory
C28_PersistedEqualsMemory ==
    (lastOp.op \in UIMutations /\ phase = "ready") =>
        /\ StoreGet(localStorage, ItemsNs, JSArr(<< >>)) = JSArr(groceryItems)
        /\ StoreGet(localStorage, ShoppingNs, JSArr({})) = JSArr(shoppingSet)
        /\ StoreGet(localStorage, ShoppingStatusNs, JSArr({}))
              = JSArr(uncheckedSet)

\* a switch of the shopping list was turned off with two Items in the
\* Catalog, one of them selected, and the three namespaces hold entries
C28_Witness ==
    /\ lastOp.op = "toggleItem"
    /\ Len(groceryItems) = 2
    /\ shoppingSet # {}
    /\ uncheckedSet = shoppingSet
    /\ localStorage[ItemsNs] = JSArr(groceryItems)
    /\ localStorage[ShoppingNs] = JSArr(shoppingSet)
    /\ localStorage[ShoppingStatusNs] = JSArr(uncheckedSet)

\* C30: startup leaves the loading state: whether the reads of the three
\* namespaces succeed or fail, a page that is loading comes to have
\* isLoading false and its listeners installed, and a collection whose read
\* failed is empty
C30_StartupLeavesLoading ==
    /\ [](lastOp.id = "failed" =>
             /\ lastOp.op = "loadData" => groceryItems = << >>
             /\ lastOp.op = "loadShopping" => shoppingSet = {}
             /\ lastOp.op = "loadShoppingStatus" => uncheckedSet = {})
    /\ isLoading ~> (~isLoading /\ phase = "ready")

=============================================================================
